---- MODULE Spec2Model ----
(***************************************************************************)
(* Model of the monitor scheduling and price-change notification engine of *)
(* flight-price-checker (src/flight_checker.py, src/selenium_manager.py,   *)
(* src/config_manager.py, src/telegram_bot.py, src/utils.py).              *)
(*                                                                         *)
(* The module holds state machines that share no state:                    *)
(*   SpecLock   - file_lock / save_json_data / load_json_data run by the   *)
(*                threads of file_executor on one slot path;               *)
(*   SpecFetch  - the retry loop of fetch_prices._fetch_with_retry;        *)
(*   SpecPool   - the ThreadPoolExecutor of SeleniumManager;               *)
(*   SpecNotify - the notification decision of monitor_job as a function   *)
(*                of the stored prices, the fetched prices and the user's  *)
(*                preference record;                                       *)
(*   Spec       - the job queue, on_startup, monitor_job, monitor_setting  *)
(*                and cancel_callback acting on one monitor key;           *)
(*   SpecQuota  - the slots of one user under MAX_MONITORS: /monitor,      *)
(*                monitor_setting, cancel, monitor_job, cleanup_old_data;  *)
(*   SpecStart  - the loop of on_startup over the files of DATA_DIR with   *)
(*                the delays of the jobs it registers;                     *)
(*   SpecCadence - the firing times of one monitor across restarts;        *)
(*   SpecSweep  - cleanup_old_data over the slots and preference files;    *)
(*   SpecConf   - get_user_config / save_user_config on one preference     *)
(*                file, in config_manager.py and in flight_checker.py;     *)
(*   SpecTime   - check_time_restrictions;                                 *)
(*   SpecScrape - one attempt of fetch_prices over the items of a page;    *)
(*   SpecStore  - save_json_data and load_json_data called in a row;       *)
(*   SpecCycle  - monitor_setting and runs of monitor_job that follow one  *)
(*                another on one slot, with start_time and last_fetch;     *)
(*   SpecMsg    - MessageManager and its update_status_message;            *)
(*   SpecChat   - /cancel and cancel_callback on the slots of two users;   *)
(*   SpecRate   - RateLimiter.is_allowed.                                  *)
(* SpecLockFair, SpecFetchFair and SpecPoolFair add the fairness of the    *)
(* scheduler to SpecLock, SpecFetch and SpecPool.                          *)
(* Each specification leaves the variables of the others at rest.          *)
(***************************************************************************)
EXTENDS Integers, Sequences, FiniteSets, TLC

\* threads of file_executor that work on the same slot path
NumThreads == 3
\* number of save/load calls the threads issue in total
MaxOps == 3
Threads == 1..NumThreads
\* lock-file inodes that can be alive at once: one per thread
Inodes == 1..NumThreads

\* records a save can write; the serialized length of record v is v
MaxRecLen == 2
Records == 1..MaxRecLen
RecLen(v) == v

\* largest max_retries argument explored (the callers pass 3)
MaxRetries == 3
\* prices a successful attempt can return
FetchPrices == {1, 2}
\* seconds of back-off per attempt number: wait_time = 5 * (attempt + 1)
BackoffUnit == 5

\* largest worker count of the pool explored (SELENIUM_WORKERS)
MaxWorkers == 2
\* fetch requests submitted to the pool
MaxRequests == 4
Requests == 1..MaxRequests

\* largest price explored; a stored price of 0 means "never observed"
MaxPrice == 3
Prices == 1..MaxPrice
\* Python's None for a price or a target price
None == -1
\* largest notification_threshold_amount explored
MaxThreshold == 2

\* largest price in the scheduler machine
MaxSlotPrice == 2
\* monitor_setting calls that complete
MaxCreates == 1
\* runs of monitor_job that are in progress at the same time
MaxInFlight == 2

\* largest MAX_MONITORS explored (the default is 3)
MaxMonitors == 2
\* monitor keys one user can ask for
NumKeys == 3
Keys == 1..NumKeys

\* files "price_*.json" that on_startup finds in DATA_DIR
NumFiles == 2
\* minutes: interval = timedelta(minutes=30)
Interval == 30
\* minutes: a missing or unreadable last_fetch counts as now - timedelta(minutes=31)
MissingElapsed == 31
\* largest now - last_fetch explored, in minutes, and largest last_fetch - now
MaxElapsed == 65
MaxFuture == 2

\* minutes of wall-clock time the cadence machine runs for
MaxNow == 40
\* process restarts explored
MaxRestarts == 2

\* monitor slots of the user that a retention sweep finds
NumSweepFiles == 2
SweepFiles == 1..NumSweepFiles

\* values of the preference fields a user can set; 0 stands for DEFAULT_USER_CONFIG
MaxFieldVal == 1
\* calls of get_user_config / save_user_config explored in a row
MaxConfigOps == 3

\* departure and return times are drawn from FirstHour:00 .. MaxHour:59
FirstHour == 5
MaxHour == 9
\* the first NumPeriods bands of TIME_PERIODS can be selected
NumPeriods == 3

\* result items on the scraped page, and the prices they show
MaxItems == 2
MaxItemPrice == 2

\* prices in the monitor records written to the store (0 stands for "no price")
MaxStorePrice == 1
\* save_json_data / load_json_data calls made in a row on one slot
MaxStoreOps == 4

\* monitor_setting and monitor_job runs on one slot, one after the other
MaxCycleRuns == 3

\* the users of the status-message registry, the Message objects the Bot API
\* hands out and the number of registry operations followed
NumMsgUsers == 2
MaxMessages == 2
MaxMsgOps == 4

\* the users who see the cancel keyboards of a chat, the monitor keys of each
\* and the number of /cancel commands and button presses followed
NumChatUsers == 2
NumChatKeys == 2
MaxCancelOps == 3

\* the largest max_calls and time_window the rate limiter is built with, and
\* the last reading of the clock
MaxCalls == 2
MaxWindow == 2
MaxClock == 4

VARIABLES
  lockPath,    \* inode the name <slot>.lock refers to, 0 when the name is absent
  inodeLock,   \* inodeLock[i]: thread whose descriptor holds flock on inode i, 0 when free
  fd,          \* fd[t]: inode of the lock file thread t has open, 0 when none
  lpc,         \* lpc[t]: position of thread t inside save_json_data / load_json_data
  lop,         \* lop[t]: the call thread t executes: [kind, val]
  slotFile,    \* content of the slot file
  loaded,      \* loaded[t]: outcome of the last load_json_data of thread t
  lockErr,     \* lockErr[t]: the last call of t raised FileNotFoundError from os.unlink(lock_path)
  opsDone,     \* calls of save_json_data / load_json_data issued so far
  sawPartial   \* some load read the slot while it was truncated or half overwritten

VARIABLES
  max_retries,    \* argument of fetch_prices
  attempt,        \* loop variable of "for attempt in range(max_retries)"
  fpc,            \* "loop", "running", "sleeping", "returned", "raised"
  last_exception, \* last_exception of _fetch_with_retry, "None" when unset
  fResult,        \* what fetch_prices returned (a price) or raised (an exception name)
  fLog,           \* one entry per executed attempt: [outcome, started, ended, wait]
  fClock          \* seconds this call has spent in asyncio.sleep

VARIABLES
  max_workers,   \* max_workers of the ThreadPoolExecutor of SeleniumManager
  pThreads,      \* worker threads the executor has spawned
  pQueue,        \* submitted calls of _fetch_single no worker has taken yet
  pRunning,      \* requests whose _fetch_single is executing (an open browser session)
  active_tasks,  \* SeleniumManager.active_tasks
  pStarts,       \* pStarts[r]: times _fetch_single was started for request r
  pDone,         \* requests whose _fetch_single has ended
  pWaited,       \* requests that were submitted while max_workers fetches were running
  pNext          \* next request to be submitted

VARIABLES
  nCase,   \* inputs of one decision: stored prices, fetched prices, preference record
  nOut     \* what monitor_job decided for nCase

VARIABLES
  booted,     \* on_startup has run
  hist,       \* content of the slot file hist_path of the monitor
  job,        \* job[j]: job j is scheduled in the job queue
  cpc,        \* cpc[j]: position of the monitor_job run of job j
  cOld,       \* cOld[j]: old_restr, old_overall read by the run of job j
  cNew,       \* cNew[j]: the record the run of job j is going to save
  orphan,     \* orphan[j]: the file the save of job j has open was unlinked
  crpc,       \* position of monitor_setting
  crNew,      \* the record monitor_setting is going to save
  creates,    \* monitors created by monitor_setting so far
  cancelled,  \* the monitor was cancelled and not created again since
  sent        \* messages delivered to the user

VARIABLES
  MAX_MONITORS,  \* MAX_MONITORS of the environment
  dataDir,       \* keys of the user whose slot file exists in DATA_DIR
  qJobs,         \* keys whose repeating job is scheduled in the job queue
  qRuns,         \* keys with a run of monitor_job between its load and its save
  qpc,           \* position of the /monitor conversation: "idle", "SETTING", "fetching"
  qKey           \* key of the request monitor_setting is working on, 0 when none

VARIABLES
  sFiles,     \* sFiles[i]: the i-th file of DATA_DIR.glob("price_*.json")
  sIdx,       \* files on_startup has processed
  sJobs,      \* jobs registered in the job queue, in the order of registration
  sUnlinked   \* files on_startup has unlinked

VARIABLES
  tNow,          \* wall-clock time in minutes; the monitor is created at time 0
  tUp,           \* the process is running
  tLastFetch,    \* last_fetch stored in the slot
  tNextRegular,  \* next firing instant of the repeating job
  tCatchUp,      \* the one-shot catch-up job of on_startup is pending
  tRuns,         \* runs of monitor_job in progress
  tPhases,       \* firing instants of the repeating job so far, modulo the interval
  tRestarts      \* process restarts so far

VARIABLES
  wSlot,     \* wSlot[k]: the monitor slot k of the user: state, age of start_time, age of last_fetch
  wRun,      \* wRun[k]: start_time the run of monitor_job in progress for k has read, "none" without run
  wConfig,   \* the preference slot of the user: state, age of last_activity and of created_at
  wpc,       \* position of cleanup_old_data: "idle", "monitors", "configs", "done"
  wIdx       \* files of the monitor loop of cleanup_old_data processed so far

VARIABLES
  uFile,   \* content of config_<user_id>.json
  uNow,    \* datetime.now() of the next call; time 1 lies before every call
  uOut,    \* the last call: function, argument, file before, result, writes it made
  uPrev,   \* the call before the last one
  uOps     \* calls made so far

VARIABLES
  tcConfig,   \* the config passed to check_time_restrictions
  tcDep,      \* dep_time after strptime("%H:%M")
  tcRet,      \* ret_time after strptime("%H:%M")
  tcResult,   \* the value returned
  tcDone      \* TRUE once the function has been called

VARIABLES
  scItems,       \* the elements find_elements returns, in page order
  scUserConfig,  \* the time constraints in the preference record of user U
  scHasRecord,   \* TRUE when config_<U>.json exists
  scUserId,      \* TRUE when fetch_prices is called with user_id = U
  scOut          \* function called, config it used and what the attempt gave

VARIABLES
  stFile,   \* the slot on disk: whether it exists and its text
  stLog     \* the calls made so far, each with its argument, its result and the slot after it

VARIABLES
  kSlot,   \* the record in the slot of the monitor
  kNow,    \* datetime.now() of the next run
  kLast,   \* the last run: handler, record it read, outcome of its fetch, whether it wrote
  kRuns    \* runs so far

\* MessageManager: the registry, the lock of each user's message key, the
\* call of update_status_message in progress or returned last, the operations so far
VARIABLES status_messages, edit_locks, mCall, mOps

\* /cancel and cancel_callback: the slots in DATA_DIR, the names of the
\* scheduled jobs, the buttons shown in the chat, the last button press, the
\* number of operations so far
VARIABLES chDir, chJobs, chButtons, chLast, chOps

\* RateLimiter: max_calls, time_window, the recorded call times of each user,
\* the clock, the times of the calls that were allowed, the last call
VARIABLES max_calls, time_window, calls, rNow, rAllowed, rLast

lockVars == <<lockPath, inodeLock, fd, lpc, lop, slotFile, loaded, lockErr, opsDone, sawPartial>>
fetchVars == <<max_retries, attempt, fpc, last_exception, fResult, fLog, fClock>>
poolVars == <<max_workers, pThreads, pQueue, pRunning, active_tasks, pStarts, pDone, pWaited, pNext>>

notifyVars == <<nCase, nOut>>
monVars == <<booted, hist, job, cpc, cOld, cNew, orphan, crpc, crNew, creates, cancelled, sent>>

quotaVars == <<MAX_MONITORS, dataDir, qJobs, qRuns, qpc, qKey>>
startVars == <<sFiles, sIdx, sJobs, sUnlinked>>

cadVars == <<tNow, tUp, tLastFetch, tNextRegular, tCatchUp, tRuns, tPhases, tRestarts>>

sweepVars == <<wSlot, wRun, wConfig, wpc, wIdx>>

confVars == <<uFile, uNow, uOut, uPrev, uOps>>

timeVars == <<tcConfig, tcDep, tcRet, tcResult, tcDone>>

scrapeVars == <<scItems, scUserConfig, scHasRecord, scUserId, scOut>>

storeVars == <<stFile, stLog>>

cycleVars == <<kSlot, kNow, kLast, kRuns>>

msgVars == <<status_messages, edit_locks, mCall, mOps>>

chatVars == <<chDir, chJobs, chButtons, chLast, chOps>>

rateVars == <<max_calls, time_window, calls, rNow, rAllowed, rLast>>

vars == <<lockVars, fetchVars, poolVars, notifyVars, monVars, quotaVars, startVars, cadVars, sweepVars, confVars, timeVars, scrapeVars, storeVars, cycleVars, msgVars, chatVars, rateVars>>

(***************************************************************************)
(* Part 1: file_lock, save_json_data, load_json_data                       *)
(***************************************************************************)

NoOp == [kind |-> "none", val |-> 0]

\* slot contents: the file is absent, empty (just truncated), holds one record
\* written in full, or holds bytes of two records ("mixed")
Absent == [st |-> "absent", v |-> 0]
Empty == [st |-> "empty", v |-> 0]
Mixed == [st |-> "mixed", v |-> 0]
Rec(v) == [st |-> "rec", v |-> v]

\* length in bytes of the slot content
ContentLen(c) ==
  IF c.st = "rec" THEN RecLen(c.v)
  ELSE IF c.st = "mixed" THEN MaxRecLen
  ELSE 0

\* json.dump through a descriptor opened with 'w': the bytes go to offset 0 and
\* do not truncate again, so bytes another writer put behind them survive
WriteAtZero(v, c) == IF RecLen(v) >= ContentLen(c) THEN Rec(v) ELSE Mixed

\* open(file_path, 'r') and json.load of the slot content
JsonLoad(c) ==
  IF c.st = "absent" THEN [st |-> "FileNotFoundError", v |-> 0]
  ELSE IF c.st = "rec" THEN [st |-> "ok", v |-> c.v]
  ELSE [st |-> "JSONDecodeError", v |-> 0]

NotLoaded == [st |-> "none", v |-> 0]

\* an inode no name and no descriptor refers to (the file system may reuse it)
FreeInodes == {i \in Inodes : lockPath # i /\ \A t \in Threads : fd[t] # i}

LockInit ==
  /\ lockPath = 0
  /\ inodeLock = [i \in Inodes |-> 0]
  /\ fd = [t \in Threads |-> 0]
  /\ lpc = [t \in Threads |-> "idle"]
  /\ lop = [t \in Threads |-> NoOp]
  /\ slotFile \in {Absent} \cup {Rec(v) : v \in Records}
  /\ loaded = [t \in Threads |-> NotLoaded]
  /\ lockErr = [t \in Threads |-> FALSE]
  /\ opsDone = 0
  /\ sawPartial = FALSE

\* a worker thread picks up save_json_data(path, v) and runs open(lock_path, 'w')
CallSave(t) ==
  /\ UNCHANGED <<fetchVars, poolVars, notifyVars, monVars, quotaVars, startVars, cadVars, sweepVars, confVars, timeVars, scrapeVars, storeVars, cycleVars, msgVars, chatVars, rateVars>>
  /\ lpc[t] = "idle"
  /\ opsDone < MaxOps
  /\ \E v \in Records : lop' = [lop EXCEPT ![t] = [kind |-> "save", val |-> v]]
  /\ opsDone' = opsDone + 1
  /\ lockErr' = [lockErr EXCEPT ![t] = FALSE]
  /\ IF lockPath # 0
       THEN /\ fd' = [fd EXCEPT ![t] = lockPath]
            /\ UNCHANGED lockPath
       ELSE \E i \in FreeInodes :
              /\ i = CHOOSE j \in FreeInodes : \A k \in FreeInodes : j <= k
              /\ lockPath' = i
              /\ fd' = [fd EXCEPT ![t] = i]
  /\ lpc' = [lpc EXCEPT ![t] = "opened"]
  /\ UNCHANGED <<inodeLock, slotFile, loaded, sawPartial>>

\* a worker thread picks up load_json_data(path) and runs open(lock_path, 'w')
CallLoad(t) ==
  /\ UNCHANGED <<fetchVars, poolVars, notifyVars, monVars, quotaVars, startVars, cadVars, sweepVars, confVars, timeVars, scrapeVars, storeVars, cycleVars, msgVars, chatVars, rateVars>>
  /\ lpc[t] = "idle"
  /\ opsDone < MaxOps
  /\ lop' = [lop EXCEPT ![t] = [kind |-> "load", val |-> 0]]
  /\ opsDone' = opsDone + 1
  /\ lockErr' = [lockErr EXCEPT ![t] = FALSE]
  /\ loaded' = [loaded EXCEPT ![t] = NotLoaded]
  /\ IF lockPath # 0
       THEN /\ fd' = [fd EXCEPT ![t] = lockPath]
            /\ UNCHANGED lockPath
       ELSE \E i \in FreeInodes :
              /\ i = CHOOSE j \in FreeInodes : \A k \in FreeInodes : j <= k
              /\ lockPath' = i
              /\ fd' = [fd EXCEPT ![t] = i]
  /\ lpc' = [lpc EXCEPT ![t] = "opened"]
  /\ UNCHANGED <<inodeLock, slotFile, sawPartial>>

\* fcntl.flock(lock_file.fileno(), LOCK_EX): blocks until the inode is unlocked
FlockFree(t) == inodeLock[fd[t]] = 0

Flock(t) ==
  /\ UNCHANGED <<fetchVars, poolVars, notifyVars, monVars, quotaVars, startVars, cadVars, sweepVars, confVars, timeVars, scrapeVars, storeVars, cycleVars, msgVars, chatVars, rateVars>>
  /\ lpc[t] = "opened"
  /\ FlockFree(t)
  /\ inodeLock' = [inodeLock EXCEPT ![fd[t]] = t]
  /\ lpc' = [lpc EXCEPT ![t] = "locked"]
  /\ UNCHANGED <<lockPath, fd, lop, slotFile, loaded, lockErr, opsDone, sawPartial>>

\* save_json_data: open(file_path, 'w') creates or truncates the slot
SaveTruncate(t) ==
  /\ UNCHANGED <<fetchVars, poolVars, notifyVars, monVars, quotaVars, startVars, cadVars, sweepVars, confVars, timeVars, scrapeVars, storeVars, cycleVars, msgVars, chatVars, rateVars>>
  /\ lpc[t] = "locked"
  /\ lop[t].kind = "save"
  /\ slotFile' = Empty
  /\ lpc' = [lpc EXCEPT ![t] = "truncated"]
  /\ UNCHANGED <<lockPath, inodeLock, fd, lop, loaded, lockErr, opsDone, sawPartial>>

\* save_json_data: json.dump and the close that flushes the record
SaveWrite(t) ==
  /\ UNCHANGED <<fetchVars, poolVars, notifyVars, monVars, quotaVars, startVars, cadVars, sweepVars, confVars, timeVars, scrapeVars, storeVars, cycleVars, msgVars, chatVars, rateVars>>
  /\ lpc[t] = "truncated"
  /\ slotFile' = WriteAtZero(lop[t].val, slotFile)
  /\ lpc' = [lpc EXCEPT ![t] = "bodyDone"]
  /\ UNCHANGED <<lockPath, inodeLock, fd, lop, loaded, lockErr, opsDone, sawPartial>>

\* load_json_data: open(file_path, 'r') and json.load
LoadRead(t) ==
  /\ UNCHANGED <<fetchVars, poolVars, notifyVars, monVars, quotaVars, startVars, cadVars, sweepVars, confVars, timeVars, scrapeVars, storeVars, cycleVars, msgVars, chatVars, rateVars>>
  /\ lpc[t] = "locked"
  /\ lop[t].kind = "load"
  /\ loaded' = [loaded EXCEPT ![t] = JsonLoad(slotFile)]
  /\ sawPartial' = (sawPartial \/ slotFile.st \in {"empty", "mixed"})
  /\ lpc' = [lpc EXCEPT ![t] = "bodyDone"]
  /\ UNCHANGED <<lockPath, inodeLock, fd, lop, slotFile, lockErr, opsDone>>

\* the variant that releases only when the body ended without an exception
FlockUnAfterNormalExit(t) ==
  IF loaded[t].st \in {"FileNotFoundError", "JSONDecodeError"}
    THEN inodeLock
    ELSE [inodeLock EXCEPT ![fd[t]] = 0]

\* fcntl.flock(lock_file.fileno(), LOCK_UN) in the finally clause: it runs
\* after a normal end of the body and after an exception alike
FlockUn(t) == [inodeLock EXCEPT ![fd[t]] = 0]

\* file_lock finally: fcntl.flock(LOCK_UN)
Unflock(t) ==
  /\ UNCHANGED <<fetchVars, poolVars, notifyVars, monVars, quotaVars, startVars, cadVars, sweepVars, confVars, timeVars, scrapeVars, storeVars, cycleVars, msgVars, chatVars, rateVars>>
  /\ lpc[t] = "bodyDone"
  /\ inodeLock' = FlockUn(t)
  /\ lpc' = [lpc EXCEPT ![t] = "unlocked"]
  /\ UNCHANGED <<lockPath, fd, lop, slotFile, loaded, lockErr, opsDone, sawPartial>>

\* file_lock finally: os.path.exists(lock_path)
LockExists(t) ==
  /\ UNCHANGED <<fetchVars, poolVars, notifyVars, monVars, quotaVars, startVars, cadVars, sweepVars, confVars, timeVars, scrapeVars, storeVars, cycleVars, msgVars, chatVars, rateVars>>
  /\ lpc[t] = "unlocked"
  /\ lpc' = [lpc EXCEPT ![t] = IF lockPath # 0 THEN "unlinking" ELSE "closing"]
  /\ UNCHANGED <<lockPath, inodeLock, fd, lop, slotFile, loaded, lockErr, opsDone, sawPartial>>

\* file_lock finally: os.unlink(lock_path) removes the name, whichever inode it refers to
LockUnlink(t) ==
  /\ UNCHANGED <<fetchVars, poolVars, notifyVars, monVars, quotaVars, startVars, cadVars, sweepVars, confVars, timeVars, scrapeVars, storeVars, cycleVars, msgVars, chatVars, rateVars>>
  /\ lpc[t] = "unlinking"
  /\ IF lockPath # 0
       THEN /\ lockPath' = 0
            /\ UNCHANGED lockErr
       ELSE /\ lockErr' = [lockErr EXCEPT ![t] = TRUE]
            /\ UNCHANGED lockPath
  /\ lpc' = [lpc EXCEPT ![t] = "closing"]
  /\ UNCHANGED <<inodeLock, fd, lop, slotFile, loaded, opsDone, sawPartial>>

\* exit of "with open(lock_path, 'w')": the descriptor is closed and the call returns
LockClose(t) ==
  /\ UNCHANGED <<fetchVars, poolVars, notifyVars, monVars, quotaVars, startVars, cadVars, sweepVars, confVars, timeVars, scrapeVars, storeVars, cycleVars, msgVars, chatVars, rateVars>>
  /\ lpc[t] = "closing"
  /\ fd' = [fd EXCEPT ![t] = 0]
  /\ lpc' = [lpc EXCEPT ![t] = "idle"]
  /\ lop' = [lop EXCEPT ![t] = NoOp]
  /\ UNCHANGED <<lockPath, inodeLock, slotFile, loaded, lockErr, opsDone, sawPartial>>

LockNext ==
  \E t \in Threads :
    \/ CallSave(t)
    \/ CallLoad(t)
    \/ Flock(t)
    \/ SaveTruncate(t)
    \/ SaveWrite(t)
    \/ LoadRead(t)
    \/ Unflock(t)
    \/ LockExists(t)
    \/ LockUnlink(t)
    \/ LockClose(t)

\* the lock machine at rest, for the specifications of the other parts
LockOff ==
  /\ lockPath = 0
  /\ inodeLock = [i \in Inodes |-> 0]
  /\ fd = [t \in Threads |-> 0]
  /\ lpc = [t \in Threads |-> "idle"]
  /\ lop = [t \in Threads |-> NoOp]
  /\ slotFile = Absent
  /\ loaded = [t \in Threads |-> NotLoaded]
  /\ lockErr = [t \in Threads |-> FALSE]
  /\ opsDone = 0
  /\ sawPartial = FALSE

(***************************************************************************)
(* Part 2: fetch_prices._fetch_with_retry                                  *)
(***************************************************************************)

NoResult == [kind |-> "none", price |-> 0, exc |-> "None"]
Returned(p) == [kind |-> "return", price |-> p, exc |-> "None"]
Raised(e) == [kind |-> "raise", price |-> 0, exc |-> e]

TerminalErrors == {"NoFlightDataException", "NoMatchingFlightsException"}

FetchInit ==
  /\ max_retries \in 0..MaxRetries
  /\ attempt = 0
  /\ fpc = "loop"
  /\ last_exception = "None"
  /\ fResult = NoResult
  /\ fLog = <<>>
  /\ fClock = 0

FetchOff ==
  /\ max_retries = 0
  /\ attempt = 0
  /\ fpc = "off"
  /\ last_exception = "None"
  /\ fResult = NoResult
  /\ fLog = <<>>
  /\ fClock = 0

\* top of the for loop with an iteration left: the attempt is handed to
\* selenium_manager.fetch_prices_async
AttemptStart ==
  /\ UNCHANGED <<lockVars, poolVars, notifyVars, monVars, quotaVars, startVars, cadVars, sweepVars, confVars, timeVars, scrapeVars, storeVars, cycleVars, msgVars, chatVars, rateVars>>
  /\ fpc = "loop"
  /\ attempt < max_retries
  /\ fpc' = "running"
  /\ fLog' = Append(fLog, [outcome |-> "pending", started |-> fClock, ended |-> 0, wait |-> 0])
  /\ UNCHANGED <<max_retries, attempt, last_exception, fResult, fClock>>

\* range(max_retries) is exhausted: the statements after the loop
LoopExhausted ==
  /\ UNCHANGED <<lockVars, poolVars, notifyVars, monVars, quotaVars, startVars, cadVars, sweepVars, confVars, timeVars, scrapeVars, storeVars, cycleVars, msgVars, chatVars, rateVars>>
  /\ fpc = "loop"
  /\ attempt >= max_retries
  /\ fpc' = "raised"
  /\ fResult' = Raised(IF last_exception # "None" THEN last_exception ELSE "Exception")
  /\ UNCHANGED <<max_retries, attempt, last_exception, fLog, fClock>>

\* the attempt returns a result: "return result"
AttemptOk ==
  /\ UNCHANGED <<lockVars, poolVars, notifyVars, monVars, quotaVars, startVars, cadVars, sweepVars, confVars, timeVars, scrapeVars, storeVars, cycleVars, msgVars, chatVars, rateVars>>
  /\ fpc = "running"
  /\ \E p \in FetchPrices : fResult' = Returned(p)
  /\ fLog' = [fLog EXCEPT ![Len(fLog)] = [@ EXCEPT !.outcome = "ok", !.ended = fClock]]
  /\ fpc' = "returned"
  /\ UNCHANGED <<max_retries, attempt, last_exception, fClock>>

\* "except (NoFlightDataException, NoMatchingFlightsException)": the error is
\* re-raised on the last iteration only, otherwise the loop goes on
TerminalIsLast(a, m) == a = m - 1

AttemptTerminal ==
  /\ UNCHANGED <<lockVars, poolVars, notifyVars, monVars, quotaVars, startVars, cadVars, sweepVars, confVars, timeVars, scrapeVars, storeVars, cycleVars, msgVars, chatVars, rateVars>>
  /\ fpc = "running"
  /\ \E e \in TerminalErrors :
       /\ last_exception' = e
       /\ fLog' = [fLog EXCEPT ![Len(fLog)] = [@ EXCEPT !.outcome = e, !.ended = fClock]]
       /\ IF TerminalIsLast(attempt, max_retries)
            THEN /\ fpc' = "raised"
                 /\ fResult' = Raised(e)
                 /\ UNCHANGED attempt
            ELSE /\ fpc' = "loop"
                 /\ attempt' = attempt + 1
                 /\ UNCHANGED fResult
  /\ UNCHANGED <<max_retries, fClock>>

\* wait_time = 5 * (attempt + 1)
WaitTimeFlat(a) == BackoffUnit
WaitTime(a) == BackoffUnit * (a + 1)

\* "except Exception": raise on the last iteration, otherwise sleep wait_time
AttemptTransient ==
  /\ UNCHANGED <<lockVars, poolVars, notifyVars, monVars, quotaVars, startVars, cadVars, sweepVars, confVars, timeVars, scrapeVars, storeVars, cycleVars, msgVars, chatVars, rateVars>>
  /\ fpc = "running"
  /\ last_exception' = "Exception"
  /\ IF attempt = max_retries - 1
       THEN /\ fpc' = "raised"
            /\ fResult' = Raised("Exception")
            /\ fLog' = [fLog EXCEPT ![Len(fLog)] =
                          [@ EXCEPT !.outcome = "Exception", !.ended = fClock]]
       ELSE /\ fpc' = "sleeping"
            /\ fLog' = [fLog EXCEPT ![Len(fLog)] =
                          [@ EXCEPT !.outcome = "Exception", !.ended = fClock,
                                    !.wait = WaitTime(attempt)]]
            /\ UNCHANGED fResult
  /\ UNCHANGED <<max_retries, attempt, fClock>>

\* asyncio.sleep(wait_time) returns and the loop goes to the next iteration
SleepDone ==
  /\ UNCHANGED <<lockVars, poolVars, notifyVars, monVars, quotaVars, startVars, cadVars, sweepVars, confVars, timeVars, scrapeVars, storeVars, cycleVars, msgVars, chatVars, rateVars>>
  /\ fpc = "sleeping"
  /\ fClock' = fClock + fLog[Len(fLog)].wait
  /\ attempt' = attempt + 1
  /\ fpc' = "loop"
  /\ UNCHANGED <<max_retries, last_exception, fResult, fLog>>

FetchNext ==
  \/ AttemptStart
  \/ LoopExhausted
  \/ AttemptOk
  \/ AttemptTerminal
  \/ AttemptTransient
  \/ SleepDone

(***************************************************************************)
(* Part 3: the worker pool of SeleniumManager                              *)
(***************************************************************************)

PoolInit ==
  /\ max_workers \in 1..MaxWorkers
  /\ pThreads = 0
  /\ pQueue = <<>>
  /\ pRunning = {}
  /\ active_tasks = 0
  /\ pStarts = [r \in Requests |-> 0]
  /\ pDone = {}
  /\ pWaited = {}
  /\ pNext = 1

PoolOff ==
  /\ max_workers = 0
  /\ pThreads = 0
  /\ pQueue = <<>>
  /\ pRunning = {}
  /\ active_tasks = 0
  /\ pStarts = [r \in Requests |-> 0]
  /\ pDone = {}
  /\ pWaited = {}
  /\ pNext = 0

\* ThreadPoolExecutor(max_workers=max_workers): a submit spawns a worker thread
\* only while fewer than max_workers threads exist
MaySpawnAlways(n, m) == TRUE
MaySpawn(n, m) == n < m

\* fetch_prices_async: loop.run_in_executor(self.executor, self._fetch_single, ...)
\* queues the call; the executor spawns a thread when none is idle
Submit ==
  /\ UNCHANGED <<lockVars, fetchVars, notifyVars, monVars, quotaVars, startVars, cadVars, sweepVars, confVars, timeVars, scrapeVars, storeVars, cycleVars, msgVars, chatVars, rateVars>>
  /\ pNext \in Requests
  /\ pQueue' = Append(pQueue, pNext)
  /\ pNext' = pNext + 1
  /\ pThreads' = IF pThreads - Cardinality(pRunning) <= Len(pQueue) /\ MaySpawn(pThreads, max_workers)
                   THEN pThreads + 1 ELSE pThreads
  /\ pWaited' = IF Cardinality(pRunning) >= max_workers THEN pWaited \cup {pNext} ELSE pWaited
  /\ UNCHANGED <<max_workers, pRunning, active_tasks, pStarts, pDone>>

\* an idle worker thread takes the oldest queued call and enters _fetch_single:
\* "with self.lock: self.active_tasks += 1"
WorkerTake ==
  /\ UNCHANGED <<lockVars, fetchVars, notifyVars, monVars, quotaVars, startVars, cadVars, sweepVars, confVars, timeVars, scrapeVars, storeVars, cycleVars, msgVars, chatVars, rateVars>>
  /\ pThreads > Cardinality(pRunning)
  /\ pQueue # <<>>
  /\ pRunning' = pRunning \cup {Head(pQueue)}
  /\ pStarts' = [pStarts EXCEPT ![Head(pQueue)] = @ + 1]
  /\ pQueue' = Tail(pQueue)
  /\ active_tasks' = active_tasks + 1
  /\ UNCHANGED <<max_workers, pThreads, pDone, pWaited, pNext>>

\* _fetch_single ends, by return or by exception; its finally block quits the
\* driver and runs "with self.lock: self.active_tasks -= 1"
FetchSingleEnd(r) ==
  /\ UNCHANGED <<lockVars, fetchVars, notifyVars, monVars, quotaVars, startVars, cadVars, sweepVars, confVars, timeVars, scrapeVars, storeVars, cycleVars, msgVars, chatVars, rateVars>>
  /\ r \in pRunning
  /\ pRunning' = pRunning \ {r}
  /\ pDone' = pDone \cup {r}
  /\ active_tasks' = active_tasks - 1
  /\ UNCHANGED <<max_workers, pThreads, pQueue, pStarts, pWaited, pNext>>

PoolNext ==
  \/ Submit
  \/ WorkerTake
  \/ \E r \in Requests : FetchSingleEnd(r)

(***************************************************************************)
(* Part 4: the notification decision of monitor_job                        *)
(***************************************************************************)

\* NotificationPreferenceType of config_manager.py
PreferenceTypes ==
  {"PRICE_DROP_THRESHOLD", "PRICE_DROP_ANY", "ANY_PRICE_CHANGE",
   "TARGET_PRICE_REACHED", "HISTORICAL_LOW_UPDATED"}

PriceTypes == {"RESTRICTED_ONLY", "OVERALL_ONLY", "BOTH"}

\* preference records: DEFAULT_USER_CONFIG with the notification fields varied
UserConfigs ==
  [notification_preference : PreferenceTypes,
   notification_threshold_amount : 1..MaxThreshold,
   notification_target_price : {None} \cup Prices,
   notification_price_type : PriceTypes]

\* what a successful fetch returns: _fetch_single takes both minima over the
\* same items, the restricted one over a subset that may be empty
FetchResults(P) ==
  {f \in [restricted : {None} \cup P, overall : P] :
     f.restricted = None \/ f.overall <= f.restricted}

\* "if restricted is not None and old_restr > 0 and restricted < old_restr"
PriceDroppedFirstSeen(old, new) == new # None /\ (old = 0 \/ new < old)
PriceDropped(old, new) == new # None /\ old > 0 /\ new < old

\* the variant with one send_message per line
SendMessageCallsPerLine(restricted_line, overall_line) ==
  (IF restricted_line THEN 1 ELSE 0) + (IF overall_line THEN 1 ELSE 0)

\* send_message calls of the price-drop branch: the lines of both prices are
\* collected in notify_msg_lines and sent joined, under "if price_change_occurred"
SendMessageCalls(restricted_line, overall_line) ==
  IF restricted_line \/ overall_line THEN 1 ELSE 0

\* the decision of monitor_job after a successful fetch; the preference record
\* of the user is not read on this path
Decision(old_restr, old_overall, restricted, overall) ==
  [decided |-> TRUE,
   restricted_line |-> PriceDropped(old_restr, restricted),
   overall_line |-> PriceDropped(old_overall, overall),
   price_change_occurred |->
     PriceDropped(old_restr, restricted) \/ PriceDropped(old_overall, overall),
   messages |->
     SendMessageCalls(PriceDropped(old_restr, restricted), PriceDropped(old_overall, overall))]

Undecided ==
  [decided |-> FALSE, restricted_line |-> FALSE, overall_line |-> FALSE,
   price_change_occurred |-> FALSE, messages |-> 0]

NotifyInit ==
  /\ nCase \in [old_restr : 0..MaxPrice, old_overall : 0..MaxPrice,
                new : FetchResults(Prices), config : UserConfigs]
  /\ nOut = Undecided

NotifyOff ==
  /\ nCase = [old_restr |-> 0, old_overall |-> 0,
              new |-> [restricted |-> None, overall |-> None],
              config |-> [notification_preference |-> "PRICE_DROP_THRESHOLD",
                          notification_threshold_amount |-> 1,
                          notification_target_price |-> None,
                          notification_price_type |-> "RESTRICTED_ONLY"]]
  /\ nOut = Undecided

\* monitor_job from the return of fetch_prices to the send_message call
Decide ==
  /\ UNCHANGED <<lockVars, fetchVars, poolVars, monVars, quotaVars, startVars, cadVars, sweepVars, confVars, timeVars, scrapeVars, storeVars, cycleVars, msgVars, chatVars, rateVars>>
  /\ ~nOut.decided
  /\ nOut' = Decision(nCase.old_restr, nCase.old_overall,
                      nCase.new.restricted, nCase.new.overall)
  /\ UNCHANGED nCase

NotifyNext == Decide

(***************************************************************************)
(* Part 5: the job queue, on_startup, monitor_job, monitor_setting and     *)
(* cancel_callback on one monitor key                                      *)
(*                                                                         *)
(* Handlers of user updates run one at a time; jobs of the job queue run   *)
(* as tasks of their own and interleave with them at every await.  The     *)
(* steps of a save (truncate, write) interleave with the file operations   *)
(* of other tasks: file_lock does not exclude them (Part 1).               *)
(***************************************************************************)

\* job 1: the one-shot "<hist_path>_startup_immediate" of on_startup;
\* job 2: the repeating job on_startup names after hist_path;
\* job 2 + k: the repeating job the k-th monitor_setting names after hist_path
JobImmediate == 1
JobRepeating == 2
JobIds == 1..(2 + MaxCreates)
NamedAfterSlot(j) == j # JobImmediate

\* saver 0 is monitor_setting, saver j the monitor_job run of job j
Savers == 0..(2 + MaxCreates)

SlotAbsent == [st |-> "absent", restricted |-> 0, overall |-> 0]
SlotEmpty == [st |-> "empty", restricted |-> 0, overall |-> 0]
SlotCorrupt == [st |-> "corrupt", restricted |-> 0, overall |-> 0]
SlotRec(r, o) == [st |-> "rec", restricted |-> r, overall |-> o]
SlotPrices == 1..MaxSlotPrice
NoPrices == [restricted |-> 0, overall |-> 0]

\* hist_path.exists()
Exists(h) == h.st # "absent"

\* the variant that reports an empty file as missing
LoadSlotEmptyAsMissing(h) ==
  IF h.st \in {"absent", "empty"} THEN "FileNotFoundError"
  ELSE IF h.st = "rec" THEN "ok"
  ELSE "JSONDecodeError"

\* load_json_data(hist_path)
LoadSlot(h) ==
  IF h.st = "absent" THEN "FileNotFoundError"
  ELSE IF h.st = "rec" THEN "ok"
  ELSE "JSONDecodeError"

\* the bytes a save puts into the file it has open: nothing reaches the slot
\* when that file was unlinked meanwhile; over bytes another save wrote since
\* the truncate the result is the record or, when it is the shorter one, a mix
AfterWrite(h, rec, unlinked) ==
  IF unlinked THEN {h}
  ELSE IF h.st \in {"rec", "corrupt"} /\ h # rec THEN {rec, SlotCorrupt}
  ELSE {rec}

\* the variant that stores 0 when the fetch returned no price
MergeNoOld(new, old) == IF new # None THEN new ELSE 0

\* "restricted if restricted is not None else old_restr" (and the same for overall)
Merge(new, old) == IF new # None THEN new ELSE old

\* outcomes of fetch_prices as monitor_job and monitor_setting see them
FetchFailures == {"NoMatchingFlightsException", "NoFlightDataException", "Exception"}

MonInit ==
  /\ booted = FALSE
  /\ hist \in {SlotAbsent, SlotEmpty} \cup
              {SlotRec(r, o) : r \in 0..MaxSlotPrice, o \in SlotPrices}
  /\ job = [j \in JobIds |-> FALSE]
  /\ cpc = [j \in JobIds |-> "idle"]
  /\ cOld = [j \in JobIds |-> NoPrices]
  /\ cNew = [j \in JobIds |-> NoPrices]
  /\ orphan = [x \in Savers |-> FALSE]
  /\ crpc = "idle"
  /\ crNew = NoPrices
  /\ creates = 0
  /\ cancelled = FALSE
  /\ sent = {}

MonOff ==
  /\ booted = FALSE
  /\ hist = SlotAbsent
  /\ job = [j \in JobIds |-> FALSE]
  /\ cpc = [j \in JobIds |-> "off"]
  /\ cOld = [j \in JobIds |-> NoPrices]
  /\ cNew = [j \in JobIds |-> NoPrices]
  /\ orphan = [x \in Savers |-> FALSE]
  /\ crpc = "off"
  /\ crNew = NoPrices
  /\ creates = 0
  /\ cancelled = FALSE
  /\ sent = {}

\* saver x has the slot open for writing, between its truncate and its write
Truncating(x) == IF x = 0 THEN crpc = "truncated" ELSE cpc[x] = "truncated"

\* on_startup for the slot of the monitor: runs before the job queue starts
OnStartup ==
  /\ UNCHANGED <<lockVars, fetchVars, poolVars, notifyVars, quotaVars, startVars, cadVars, sweepVars, confVars, timeVars, scrapeVars, storeVars, cycleVars, msgVars, chatVars, rateVars>>
  /\ ~booted
  /\ booted' = TRUE
  /\ IF LoadSlot(hist) = "JSONDecodeError"
       THEN /\ hist' = SlotAbsent
            /\ UNCHANGED job
       ELSE IF LoadSlot(hist) = "FileNotFoundError"
         THEN UNCHANGED <<hist, job>>
         ELSE /\ \E overdue \in BOOLEAN :
                   job' = [job EXCEPT ![JobImmediate] = overdue, ![JobRepeating] = TRUE]
              /\ UNCHANGED hist
  /\ UNCHANGED <<cpc, cOld, cNew, orphan, crpc, crNew, creates, cancelled, sent>>

\* runs of monitor_job in flight, from reading the slot to writing it back
InFlight == {j \in JobIds : cpc[j] # "idle"}

\* the job queue starts a run of monitor_job for a scheduled job that has no
\* run in progress; the run begins with "if not hist_path.exists()"
JobFire(j) ==
  /\ UNCHANGED <<lockVars, fetchVars, poolVars, notifyVars, quotaVars, startVars, cadVars, sweepVars, confVars, timeVars, scrapeVars, storeVars, cycleVars, msgVars, chatVars, rateVars>>
  /\ booted
  /\ job[j]
  /\ cpc[j] = "idle"
  /\ Cardinality(InFlight) < MaxInFlight
  /\ IF Exists(hist)
       THEN /\ cpc' = [cpc EXCEPT ![j] = "loading"]
            /\ job' = [job EXCEPT ![j] = IF j = JobImmediate THEN FALSE ELSE @]
       ELSE /\ job' = [job EXCEPT ![j] = FALSE]
            /\ UNCHANGED cpc
  /\ UNCHANGED <<booted, hist, cOld, cNew, orphan, crpc, crNew, creates, cancelled, sent>>

\* monitor_job: state = await load_json_data_async(hist_path)
CycleLoad(j) ==
  /\ UNCHANGED <<lockVars, fetchVars, poolVars, notifyVars, quotaVars, startVars, cadVars, sweepVars, confVars, timeVars, scrapeVars, storeVars, cycleVars, msgVars, chatVars, rateVars>>
  /\ cpc[j] = "loading"
  /\ IF LoadSlot(hist) = "ok"
       THEN /\ cOld' = [cOld EXCEPT ![j] = [restricted |-> hist.restricted, overall |-> hist.overall]]
            /\ cpc' = [cpc EXCEPT ![j] = "fetching"]
            /\ UNCHANGED job
       ELSE IF LoadSlot(hist) = "FileNotFoundError"
         THEN /\ job' = [job EXCEPT ![j] = FALSE]
              /\ cpc' = [cpc EXCEPT ![j] = "idle"]
              /\ UNCHANGED cOld
         ELSE /\ cpc' = [cpc EXCEPT ![j] = "corrupt"]
              /\ UNCHANGED <<job, cOld>>
  /\ UNCHANGED <<booted, hist, cNew, orphan, crpc, crNew, creates, cancelled, sent>>

\* monitor_job, except json.JSONDecodeError: hist_path.unlink() and schedule_removal()
CycleUnlinkCorrupt(j) ==
  /\ UNCHANGED <<lockVars, fetchVars, poolVars, notifyVars, quotaVars, startVars, cadVars, sweepVars, confVars, timeVars, scrapeVars, storeVars, cycleVars, msgVars, chatVars, rateVars>>
  /\ cpc[j] = "corrupt"
  /\ hist' = SlotAbsent
  /\ orphan' = [x \in Savers |-> orphan[x] \/ (Exists(hist) /\ Truncating(x))]
  /\ job' = [job EXCEPT ![j] = FALSE]
  /\ cpc' = [cpc EXCEPT ![j] = "idle"]
  /\ UNCHANGED <<booted, cOld, cNew, crpc, crNew, creates, cancelled, sent>>

\* monitor_job: fetch_prices returns a result; the decision of Part 4 follows
CycleFetchOk(j) ==
  /\ UNCHANGED <<lockVars, fetchVars, poolVars, notifyVars, quotaVars, startVars, cadVars, sweepVars, confVars, timeVars, scrapeVars, storeVars, cycleVars, msgVars, chatVars, rateVars>>
  /\ cpc[j] = "fetching"
  /\ \E f \in FetchResults(SlotPrices) :
       /\ cNew' = [cNew EXCEPT ![j] = [restricted |-> Merge(f.restricted, cOld[j].restricted),
                                       overall |-> Merge(f.overall, cOld[j].overall)]]
       /\ cpc' = [cpc EXCEPT ![j] =
                    IF Decision(cOld[j].restricted, cOld[j].overall,
                                f.restricted, f.overall).price_change_occurred
                      THEN "sending" ELSE "saving"]
  /\ cOld' = [cOld EXCEPT ![j] = NoPrices]
  /\ UNCHANGED <<booted, hist, job, orphan, crpc, crNew, creates, cancelled, sent>>

\* monitor_job: fetch_prices raises.  With NoMatchingFlightsException and a
\* nonzero stored price the handler goes on to build its message; every other
\* failure is logged and the run goes on to the save with the stored prices
CycleFetchFail(j) ==
  /\ UNCHANGED <<lockVars, fetchVars, poolVars, notifyVars, quotaVars, startVars, cadVars, sweepVars, confVars, timeVars, scrapeVars, storeVars, cycleVars, msgVars, chatVars, rateVars>>
  /\ cpc[j] = "fetching"
  /\ \E e \in FetchFailures :
       IF e = "NoMatchingFlightsException" /\ (cOld[j].restricted # 0 \/ cOld[j].overall # 0)
         THEN /\ cpc' = [cpc EXCEPT ![j] = "no_matching"]
              /\ UNCHANGED cNew
         ELSE /\ cpc' = [cpc EXCEPT ![j] = "saving"]
              /\ cNew' = [cNew EXCEPT ![j] = [restricted |-> Merge(None, cOld[j].restricted),
                                              overall |-> Merge(None, cOld[j].overall)]]
  /\ cOld' = [cOld EXCEPT ![j] = NoPrices]
  /\ UNCHANGED <<booted, hist, job, orphan, crpc, crNew, creates, cancelled, sent>>

\* monitor_job, handler of NoMatchingFlightsException after its await of
\* get_user_config_async: the message is built from dep_city, which is
\* assigned only after a successful fetch, so the handler raises
\* UnboundLocalError and the run ends there, without message and without save
CycleNoMatchingNotice(j) ==
  /\ UNCHANGED <<lockVars, fetchVars, poolVars, notifyVars, quotaVars, startVars, cadVars, sweepVars, confVars, timeVars, scrapeVars, storeVars, cycleVars, msgVars, chatVars, rateVars>>
  /\ cpc[j] = "no_matching"
  /\ cpc' = [cpc EXCEPT ![j] = "idle"]
  /\ UNCHANGED <<booted, hist, job, cOld, cNew, orphan, crpc, crNew, creates, cancelled, sent>>

\* monitor_job: await context.bot.send_message(...) for a price drop; when the
\* delivery fails the handler of send_error is entered
CycleSend(j) ==
  /\ UNCHANGED <<lockVars, fetchVars, poolVars, notifyVars, quotaVars, startVars, cadVars, sweepVars, confVars, timeVars, scrapeVars, storeVars, cycleVars, msgVars, chatVars, rateVars>>
  /\ cpc[j] = "sending"
  /\ \E delivered \in BOOLEAN :
       IF delivered
         THEN /\ sent' = sent \cup {[kind |-> "price_drop", afterCancel |-> cancelled]}
              /\ cpc' = [cpc EXCEPT ![j] = "saving"]
         ELSE /\ sent' = sent
              /\ cpc' = [cpc EXCEPT ![j] = "send_failed"]
  /\ UNCHANGED <<booted, hist, job, cOld, cNew, orphan, crpc, crNew, creates, cancelled>>

\* monitor_job, "except Exception as send_error": the failure is logged and the
\* run goes on to the save with the record it had prepared
CycleSendFailed(j) ==
  /\ UNCHANGED <<lockVars, fetchVars, poolVars, notifyVars, quotaVars, startVars, cadVars, sweepVars, confVars, timeVars, scrapeVars, storeVars, cycleVars, msgVars, chatVars, rateVars>>
  /\ cpc[j] = "send_failed"
  /\ cpc' = [cpc EXCEPT ![j] = "saving"]
  /\ UNCHANGED <<booted, hist, job, cOld, cNew, orphan, crpc, crNew, creates, cancelled, sent>>

\* monitor_job: save_json_data_async(hist_path, new_state_data) has run
\* open(file_path, 'w'), which creates the slot when it is absent
CycleSaveTruncate(j) ==
  /\ UNCHANGED <<lockVars, fetchVars, poolVars, notifyVars, quotaVars, startVars, cadVars, sweepVars, confVars, timeVars, scrapeVars, storeVars, cycleVars, msgVars, chatVars, rateVars>>
  /\ cpc[j] = "saving"
  /\ hist' = SlotEmpty
  /\ orphan' = [orphan EXCEPT ![j] = FALSE]
  /\ cpc' = [cpc EXCEPT ![j] = "truncated"]
  /\ UNCHANGED <<booted, job, cOld, cNew, crpc, crNew, creates, cancelled, sent>>

\* monitor_job: json.dump and close of the save; the run ends
CycleSaveWrite(j) ==
  /\ UNCHANGED <<lockVars, fetchVars, poolVars, notifyVars, quotaVars, startVars, cadVars, sweepVars, confVars, timeVars, scrapeVars, storeVars, cycleVars, msgVars, chatVars, rateVars>>
  /\ cpc[j] = "truncated"
  /\ hist' \in AfterWrite(hist, SlotRec(cNew[j].restricted, cNew[j].overall), orphan[j])
  /\ cpc' = [cpc EXCEPT ![j] = "idle"]
  /\ cNew' = [cNew EXCEPT ![j] = NoPrices]
  /\ orphan' = [orphan EXCEPT ![j] = FALSE]
  /\ UNCHANGED <<booted, job, cOld, crpc, crNew, creates, cancelled, sent>>

\* cancel_callback for "cancel_<file>": target.unlink() and schedule_removal()
\* of the jobs named str(target); runs of monitor_job in progress are left alone
Cancel ==
  /\ UNCHANGED <<lockVars, fetchVars, poolVars, notifyVars, quotaVars, startVars, cadVars, sweepVars, confVars, timeVars, scrapeVars, storeVars, cycleVars, msgVars, chatVars, rateVars>>
  /\ booted
  /\ crpc = "idle"
  /\ Exists(hist)
  /\ hist' = SlotAbsent
  /\ orphan' = [x \in Savers |-> orphan[x] \/ Truncating(x)]
  /\ job' = [j \in JobIds |-> job[j] /\ ~NamedAfterSlot(j)]
  /\ cancelled' = TRUE
  /\ UNCHANGED <<booted, cpc, cOld, cNew, crpc, crNew, creates, sent>>

\* monitor_setting is entered with a well-formed request and calls fetch_prices
CreateStart ==
  /\ UNCHANGED <<lockVars, fetchVars, poolVars, notifyVars, quotaVars, startVars, cadVars, sweepVars, confVars, timeVars, scrapeVars, storeVars, cycleVars, msgVars, chatVars, rateVars>>
  /\ booted
  /\ crpc = "idle"
  /\ creates < MaxCreates
  /\ crpc' = "fetching"
  /\ UNCHANGED <<booted, hist, job, cpc, cOld, cNew, orphan, crNew, creates, cancelled, sent>>

\* monitor_setting: fetch_prices returns ("restricted or 0", "overall or 0" are
\* what is stored) or raises (the request ends with an error message)
CreateFetch ==
  /\ UNCHANGED <<lockVars, fetchVars, poolVars, notifyVars, quotaVars, startVars, cadVars, sweepVars, confVars, timeVars, scrapeVars, storeVars, cycleVars, msgVars, chatVars, rateVars>>
  /\ crpc = "fetching"
  /\ \/ \E f \in FetchResults(SlotPrices) :
          /\ crNew' = [restricted |-> IF f.restricted = None THEN 0 ELSE f.restricted,
                       overall |-> f.overall]
          /\ crpc' = "saving"
     \/ /\ crpc' = "idle"
        /\ UNCHANGED crNew
  /\ UNCHANGED <<booted, hist, job, cpc, cOld, cNew, orphan, creates, cancelled, sent>>

\* monitor_setting: save_json_data_async(hist_path, ...) has run open(file_path, 'w')
CreateSaveTruncate ==
  /\ UNCHANGED <<lockVars, fetchVars, poolVars, notifyVars, quotaVars, startVars, cadVars, sweepVars, confVars, timeVars, scrapeVars, storeVars, cycleVars, msgVars, chatVars, rateVars>>
  /\ crpc = "saving"
  /\ hist' = SlotEmpty
  /\ orphan' = [orphan EXCEPT ![0] = FALSE]
  /\ cancelled' = FALSE
  /\ crpc' = "truncated"
  /\ UNCHANGED <<booted, job, cpc, cOld, cNew, crNew, creates, sent>>

\* monitor_setting: the save completes and run_repeating(monitor_job,
\* first=0, name=str(hist_path)) registers the job of the monitor
CreateSaveWrite ==
  /\ UNCHANGED <<lockVars, fetchVars, poolVars, notifyVars, quotaVars, startVars, cadVars, sweepVars, confVars, timeVars, scrapeVars, storeVars, cycleVars, msgVars, chatVars, rateVars>>
  /\ crpc = "truncated"
  /\ hist' \in AfterWrite(hist, SlotRec(crNew.restricted, crNew.overall), orphan[0])
  /\ job' = [job EXCEPT ![2 + creates + 1] = TRUE]
  /\ creates' = creates + 1
  /\ crpc' = "idle"
  /\ crNew' = NoPrices
  /\ orphan' = [orphan EXCEPT ![0] = FALSE]
  /\ UNCHANGED <<booted, cpc, cOld, cNew, cancelled, sent>>

\* cleanup_old_data, the iteration for the slot of the monitor: a file that
\* does not parse is unlinked, a record is unlinked when its start_time lies
\* before the cutoff; the jobs of the monitor are left alone
SweepSlot ==
  /\ UNCHANGED <<lockVars, fetchVars, poolVars, notifyVars, quotaVars, startVars, cadVars, sweepVars, confVars, timeVars, scrapeVars, storeVars, cycleVars, msgVars, chatVars, rateVars>>
  /\ booted
  /\ Exists(hist)
  /\ \E old \in BOOLEAN :
       IF LoadSlot(hist) = "JSONDecodeError" \/ old
         THEN /\ hist' = SlotAbsent
              /\ orphan' = [x \in Savers |-> orphan[x] \/ Truncating(x)]
         ELSE UNCHANGED <<hist, orphan>>
  /\ UNCHANGED <<booted, job, cpc, cOld, cNew, crpc, crNew, creates, cancelled, sent>>

Next ==
  \/ OnStartup
  \/ Cancel
  \/ SweepSlot
  \/ CreateStart
  \/ CreateFetch
  \/ CreateSaveTruncate
  \/ CreateSaveWrite
  \/ \E j \in JobIds :
       \/ JobFire(j)
       \/ CycleLoad(j)
       \/ CycleUnlinkCorrupt(j)
       \/ CycleFetchOk(j)
       \/ CycleFetchFail(j)
       \/ CycleNoMatchingNotice(j)
       \/ CycleSend(j)
       \/ CycleSendFailed(j)
       \/ CycleSaveTruncate(j)
       \/ CycleSaveWrite(j)

(***************************************************************************)
(* Part 6: the monitors of one user: /monitor, monitor_setting,            *)
(* cancel_callback, monitor_job and cleanup_old_data on the slots in       *)
(* DATA_DIR                                                                *)
(*                                                                         *)
(* Handlers of user updates run one at a time, so no other handler runs    *)
(* while monitor_setting awaits fetch_prices; jobs of the job queue do.    *)
(***************************************************************************)

\* len(existing) >= MAX_MONITORS, existing the slots of the user in DATA_DIR
AtLimit(dir, limit) == Cardinality(dir) >= limit

QuotaInit ==
  /\ MAX_MONITORS \in 1..MaxMonitors
  /\ dataDir \in {d \in SUBSET Keys : Cardinality(d) <= MAX_MONITORS}
  /\ qJobs = dataDir
  /\ qRuns = {}
  /\ qpc = "idle"
  /\ qKey = 0

QuotaOff ==
  /\ MAX_MONITORS = 0
  /\ dataDir = {}
  /\ qJobs = {}
  /\ qRuns = {}
  /\ qpc = "off"
  /\ qKey = 0

\* monitor_cmd: at the limit the conversation ends, else it enters SETTING
MonitorCmd ==
  /\ UNCHANGED <<lockVars, fetchVars, poolVars, notifyVars, monVars, startVars, cadVars, sweepVars, confVars, timeVars, scrapeVars, storeVars, cycleVars, msgVars, chatVars, rateVars>>
  /\ qpc = "idle"
  /\ qpc' = IF AtLimit(dataDir, MAX_MONITORS) THEN "idle" ELSE "SETTING"
  /\ UNCHANGED <<MAX_MONITORS, dataDir, qJobs, qRuns, qKey>>

\* monitor_setting up to its call of fetch_prices, for a request with key k
MonitorSettingCheck(k) ==
  /\ UNCHANGED <<lockVars, fetchVars, poolVars, notifyVars, monVars, startVars, cadVars, sweepVars, confVars, timeVars, scrapeVars, storeVars, cycleVars, msgVars, chatVars, rateVars>>
  /\ qpc = "SETTING"
  /\ IF AtLimit(dataDir, MAX_MONITORS)
       THEN /\ qpc' = "idle"
            /\ UNCHANGED qKey
       ELSE /\ qpc' = "fetching"
            /\ qKey' = k
  /\ UNCHANGED <<MAX_MONITORS, dataDir, qJobs, qRuns>>

\* monitor_setting after fetch_prices: on a result the slot is saved and
\* run_repeating registers the job; on an exception the request ends
MonitorSettingSave ==
  /\ UNCHANGED <<lockVars, fetchVars, poolVars, notifyVars, monVars, startVars, cadVars, sweepVars, confVars, timeVars, scrapeVars, storeVars, cycleVars, msgVars, chatVars, rateVars>>
  /\ qpc = "fetching"
  /\ \E fetched \in BOOLEAN :
       IF fetched
         THEN /\ dataDir' = dataDir \cup {qKey}
              /\ qJobs' = qJobs \cup {qKey}
         ELSE UNCHANGED <<dataDir, qJobs>>
  /\ qpc' = "idle"
  /\ qKey' = 0
  /\ UNCHANGED <<MAX_MONITORS, qRuns>>

\* cancel_callback: target.unlink() and schedule_removal() of the jobs of k
QuotaCancel(k) ==
  /\ UNCHANGED <<lockVars, fetchVars, poolVars, notifyVars, monVars, startVars, cadVars, sweepVars, confVars, timeVars, scrapeVars, storeVars, cycleVars, msgVars, chatVars, rateVars>>
  /\ qpc \in {"idle", "SETTING"}
  /\ k \in dataDir
  /\ dataDir' = dataDir \ {k}
  /\ qJobs' = qJobs \ {k}
  /\ UNCHANGED <<MAX_MONITORS, qRuns, qpc, qKey>>

\* the job of k fires: without slot the job removes itself, else the run loads
\* the slot and calls fetch_prices
QuotaJobFire(k) ==
  /\ UNCHANGED <<lockVars, fetchVars, poolVars, notifyVars, monVars, startVars, cadVars, sweepVars, confVars, timeVars, scrapeVars, storeVars, cycleVars, msgVars, chatVars, rateVars>>
  /\ k \in qJobs
  /\ k \notin qRuns
  /\ IF k \in dataDir
       THEN /\ qRuns' = qRuns \cup {k}
            /\ UNCHANGED qJobs
       ELSE /\ qJobs' = qJobs \ {k}
            /\ UNCHANGED qRuns
  /\ UNCHANGED <<MAX_MONITORS, dataDir, qpc, qKey>>

\* the run of k ends: with its save, whose open(file_path, 'w') creates the
\* slot when it is absent, or without it (handler of NoMatchingFlightsException)
QuotaCycleEnd(k) ==
  /\ UNCHANGED <<lockVars, fetchVars, poolVars, notifyVars, monVars, startVars, cadVars, sweepVars, confVars, timeVars, scrapeVars, storeVars, cycleVars, msgVars, chatVars, rateVars>>
  /\ k \in qRuns
  /\ qRuns' = qRuns \ {k}
  /\ \E saved \in BOOLEAN :
       dataDir' = IF saved THEN dataDir \cup {k} ELSE dataDir
  /\ UNCHANGED <<MAX_MONITORS, qJobs, qpc, qKey>>

\* cleanup_old_data: file_path.unlink() of a slot whose start_time is older
\* than the retention period (or missing); the job of the slot is left alone
QuotaSweep(k) ==
  /\ UNCHANGED <<lockVars, fetchVars, poolVars, notifyVars, monVars, startVars, cadVars, sweepVars, confVars, timeVars, scrapeVars, storeVars, cycleVars, msgVars, chatVars, rateVars>>
  /\ k \in dataDir
  /\ dataDir' = dataDir \ {k}
  /\ UNCHANGED <<MAX_MONITORS, qJobs, qRuns, qpc, qKey>>

QuotaNext ==
  \/ MonitorCmd
  \/ MonitorSettingSave
  \/ \E k \in Keys :
       \/ MonitorSettingCheck(k)
       \/ QuotaCancel(k)
       \/ QuotaJobFire(k)
       \/ QuotaCycleEnd(k)
       \/ QuotaSweep(k)

(***************************************************************************)
(* Part 7: on_startup over the files of DATA_DIR.  Times are in minutes;   *)
(* elapsed is now - last_fetch.                                            *)
(***************************************************************************)

\* a file of the glob: its name does not match PATTERN, it does not parse,
\* its last_fetch is missing or not a date, or it is a slot with a last_fetch
FileKinds == {"nomatch", "corrupt", "missing", "invalid", "ok"}
SlotFile(kind, elapsed) == [kind |-> kind, elapsed |-> elapsed]
StartupFiles ==
  {SlotFile(k, 0) : k \in FileKinds \ {"ok"}} \cup
  {SlotFile("ok", e) : e \in (0 - MaxFuture)..MaxElapsed}

\* delta = now - last_fetch, last_fetch replaced by now - 31 min when unusable
Delta(f) == IF f.kind = "ok" THEN f.elapsed ELSE MissingElapsed

\* "if delta >= interval": the one-shot catch-up job is registered
CatchUpStrict(delta) == delta > Interval
CatchUp(delta) == delta >= Interval

\* next_run_delay of the repeating job
NextRunDelayFromLast(delta) == Interval - delta
NextRunDelay(delta) ==
  IF delta < 0 THEN Interval
  ELSE IF Interval - (delta % Interval) = 0 /\ delta > 0 THEN Interval
  ELSE Interval - (delta % Interval)

OnceJob(i) == [file |-> i, kind |-> "once", first |-> 0]
RepeatingJob(i, d) == [file |-> i, kind |-> "repeating", first |-> d]

\* the jobs one iteration of the loop registers for file i
JobsFor(i, f) ==
  (IF CatchUp(Delta(f)) THEN <<OnceJob(i)>> ELSE <<>>) \o
  <<RepeatingJob(i, NextRunDelay(Delta(f)))>>

StartInit ==
  /\ sFiles \in [1..NumFiles -> StartupFiles]
  /\ sIdx = 0
  /\ sJobs = <<>>
  /\ sUnlinked = {}

StartOff ==
  /\ sFiles = <<>>
  /\ sIdx = 0
  /\ sJobs = <<>>
  /\ sUnlinked = {}

\* one iteration of "for hist_path in DATA_DIR.glob(...)"
StartupFile ==
  /\ UNCHANGED <<lockVars, fetchVars, poolVars, notifyVars, monVars, quotaVars, cadVars, sweepVars, confVars, timeVars, scrapeVars, storeVars, cycleVars, msgVars, chatVars, rateVars>>
  /\ sIdx < Len(sFiles)
  /\ sIdx' = sIdx + 1
  /\ LET i == sIdx + 1
         f == sFiles[i]
     IN IF f.kind = "nomatch"
          THEN UNCHANGED <<sJobs, sUnlinked>>
          ELSE IF f.kind = "corrupt"
            THEN /\ sUnlinked' = sUnlinked \cup {i}
                 /\ UNCHANGED sJobs
            ELSE /\ sJobs' = sJobs \o JobsFor(i, f)
                 /\ UNCHANGED sUnlinked
  /\ UNCHANGED sFiles

StartNext == StartupFile

(***************************************************************************)
(* Part 8: the firing instants of one monitor across cycles and restarts.  *)
(* monitor_setting saves the slot and registers the repeating job with     *)
(* first = 0 at time 0; a run of monitor_job stores last_fetch =           *)
(* datetime.now() when it saves; on_startup derives the first firing of    *)
(* the repeating job from now - last_fetch.                                *)
(***************************************************************************)

CadInit ==
  /\ tNow = 0
  /\ tUp = TRUE
  /\ tLastFetch = 0
  /\ tNextRegular = 0
  /\ tCatchUp = FALSE
  /\ tRuns = 0
  /\ tPhases = {}
  /\ tRestarts = 0

CadOff ==
  /\ tNow = 0
  /\ tUp = FALSE
  /\ tLastFetch = 0
  /\ tNextRegular = 0
  /\ tCatchUp = FALSE
  /\ tRuns = 0
  /\ tPhases = {}
  /\ tRestarts = MaxRestarts

\* a job of the running process is due now
CadDue == tUp /\ (tCatchUp \/ tNextRegular = tNow)

\* a minute passes; due jobs fire before
CadTick ==
  /\ UNCHANGED <<lockVars, fetchVars, poolVars, notifyVars, monVars, quotaVars, startVars, sweepVars, confVars, timeVars, scrapeVars, storeVars, cycleVars, msgVars, chatVars, rateVars>>
  /\ tNow < MaxNow
  /\ ~CadDue
  /\ tNow' = tNow + 1
  /\ UNCHANGED <<tUp, tLastFetch, tNextRegular, tCatchUp, tRuns, tPhases, tRestarts>>

\* the repeating job fires and fires again one interval later
CadFireRegular ==
  /\ UNCHANGED <<lockVars, fetchVars, poolVars, notifyVars, monVars, quotaVars, startVars, sweepVars, confVars, timeVars, scrapeVars, storeVars, cycleVars, msgVars, chatVars, rateVars>>
  /\ tUp
  /\ tNextRegular = tNow
  /\ tRuns < MaxInFlight
  /\ tPhases' = tPhases \cup {tNow % Interval}
  /\ tNextRegular' = tNow + Interval
  /\ tRuns' = tRuns + 1
  /\ UNCHANGED <<tNow, tUp, tLastFetch, tCatchUp, tRestarts>>

\* the one-shot catch-up job fires
CadFireCatchUp ==
  /\ UNCHANGED <<lockVars, fetchVars, poolVars, notifyVars, monVars, quotaVars, startVars, sweepVars, confVars, timeVars, scrapeVars, storeVars, cycleVars, msgVars, chatVars, rateVars>>
  /\ tUp
  /\ tCatchUp
  /\ tRuns < MaxInFlight
  /\ tCatchUp' = FALSE
  /\ tRuns' = tRuns + 1
  /\ UNCHANGED <<tNow, tUp, tLastFetch, tNextRegular, tPhases, tRestarts>>

\* a run of monitor_job saves: "last_fetch": format_datetime(datetime.now())
CadSave ==
  /\ UNCHANGED <<lockVars, fetchVars, poolVars, notifyVars, monVars, quotaVars, startVars, sweepVars, confVars, timeVars, scrapeVars, storeVars, cycleVars, msgVars, chatVars, rateVars>>
  /\ tUp
  /\ tRuns > 0
  /\ tLastFetch' = tNow
  /\ tRuns' = tRuns - 1
  /\ UNCHANGED <<tNow, tUp, tNextRegular, tCatchUp, tPhases, tRestarts>>

\* the process stops; the job queue and the runs in progress are gone
CadStop ==
  /\ UNCHANGED <<lockVars, fetchVars, poolVars, notifyVars, monVars, quotaVars, startVars, sweepVars, confVars, timeVars, scrapeVars, storeVars, cycleVars, msgVars, chatVars, rateVars>>
  /\ tUp
  /\ tRestarts < MaxRestarts
  /\ tUp' = FALSE
  /\ tCatchUp' = FALSE
  /\ tRuns' = 0
  /\ UNCHANGED <<tNow, tLastFetch, tNextRegular, tPhases, tRestarts>>

\* the process starts: on_startup registers the jobs of the slot
CadStartup ==
  /\ UNCHANGED <<lockVars, fetchVars, poolVars, notifyVars, monVars, quotaVars, startVars, sweepVars, confVars, timeVars, scrapeVars, storeVars, cycleVars, msgVars, chatVars, rateVars>>
  /\ ~tUp
  /\ tRestarts < MaxRestarts
  /\ tUp' = TRUE
  /\ tRestarts' = tRestarts + 1
  /\ tCatchUp' = CatchUp(tNow - tLastFetch)
  /\ tNextRegular' = tNow + NextRunDelay(tNow - tLastFetch)
  /\ UNCHANGED <<tNow, tLastFetch, tRuns, tPhases>>

CadNext ==
  \/ CadTick
  \/ CadFireRegular
  \/ CadFireCatchUp
  \/ CadSave
  \/ CadStop
  \/ CadStartup

(***************************************************************************)
(* Part 9: cleanup_old_data over the monitor slots and the preference slot *)
(* of one user, with runs of monitor_job in progress.  A date is "old"     *)
(* when it lies before the cutoff of its loop, "recent" when it does not,  *)
(* "missing" when the record has no such field.                            *)
(***************************************************************************)

Ages == {"old", "recent", "missing"}

WAbsent == [st |-> "absent", start_time |-> "missing", last_fetch |-> "missing"]
WCorrupt == [st |-> "corrupt", start_time |-> "missing", last_fetch |-> "missing"]
WRec(s, f) == [st |-> "rec", start_time |-> s, last_fetch |-> f]

CfgAbsent == [st |-> "absent", last_activity |-> "missing", created_at |-> "missing"]
CfgCorrupt == [st |-> "corrupt", last_activity |-> "missing", created_at |-> "missing"]
CfgRec(a, c) == [st |-> "rec", last_activity |-> a, created_at |-> c]

\* data.get('last_activity', data.get('created_at'))
LastActivityStr(cfg) ==
  IF cfg.last_activity # "missing" THEN cfg.last_activity ELSE cfg.created_at

\* DATA_DIR.glob(f"price_{user_id}_*.json"): the slot files of the user
ActiveMonitors(slots) == {k \in SweepFiles : slots[k].st # "absent"}

\* the monitor loop for one file: load, then unlink when the record does not
\* parse, has no start_time, or start_time < cutoff_date
SweepMonitorFile(f) ==
  IF f.st = "absent" THEN f
  ELSE IF f.st = "corrupt" THEN WAbsent
  ELSE IF f.start_time = "missing" THEN WAbsent
  ELSE IF f.start_time = "old" THEN WAbsent
  ELSE f

\* the preference loop for the config file of the user
SweepConfigFile(cfg, slots) ==
  IF cfg.st = "absent" THEN cfg
  ELSE IF cfg.st = "corrupt" THEN CfgAbsent
  ELSE IF LastActivityStr(cfg) = "missing" THEN CfgAbsent
  ELSE IF LastActivityStr(cfg) = "old" /\ ActiveMonitors(slots) = {} THEN CfgAbsent
  ELSE cfg

SweepInit ==
  /\ wSlot \in [SweepFiles ->
       {WAbsent, WCorrupt} \cup {WRec(s, f) : s \in {"old", "recent"}, f \in {"old", "recent"}}]
  /\ wRun = [k \in SweepFiles |-> "none"]
  /\ wConfig \in {CfgAbsent, CfgCorrupt} \cup {CfgRec(a, c) : a \in Ages, c \in Ages}
  /\ wpc = "idle"
  /\ wIdx = 0

SweepOff ==
  /\ wSlot = [k \in SweepFiles |-> WAbsent]
  /\ wRun = [k \in SweepFiles |-> "none"]
  /\ wConfig = CfgAbsent
  /\ wpc = "off"
  /\ wIdx = 0

\* the daily job starts cleanup_old_data
SweepStart ==
  /\ UNCHANGED <<lockVars, fetchVars, poolVars, notifyVars, monVars, quotaVars, startVars, cadVars, confVars, timeVars, scrapeVars, storeVars, cycleVars, msgVars, chatVars, rateVars>>
  /\ wpc = "idle"
  /\ wpc' = "monitors"
  /\ wIdx' = 0
  /\ UNCHANGED <<wSlot, wRun, wConfig>>

\* one iteration of "for file_path in DATA_DIR.glob('price_*.json')"
SweepMonitor ==
  /\ UNCHANGED <<lockVars, fetchVars, poolVars, notifyVars, monVars, quotaVars, startVars, cadVars, confVars, timeVars, scrapeVars, storeVars, cycleVars, msgVars, chatVars, rateVars>>
  /\ wpc = "monitors"
  /\ wIdx < NumSweepFiles
  /\ wIdx' = wIdx + 1
  /\ wSlot' = [wSlot EXCEPT ![wIdx + 1] = SweepMonitorFile(@)]
  /\ UNCHANGED <<wRun, wConfig, wpc>>

\* the monitor loop is over
SweepMonitorsDone ==
  /\ UNCHANGED <<lockVars, fetchVars, poolVars, notifyVars, monVars, quotaVars, startVars, cadVars, confVars, timeVars, scrapeVars, storeVars, cycleVars, msgVars, chatVars, rateVars>>
  /\ wpc = "monitors"
  /\ wIdx = NumSweepFiles
  /\ wpc' = "configs"
  /\ UNCHANGED <<wSlot, wRun, wConfig, wIdx>>

\* the loop over USER_CONFIG_DIR.glob("config_*.json"), which has no await
SweepConfig ==
  /\ UNCHANGED <<lockVars, fetchVars, poolVars, notifyVars, monVars, quotaVars, startVars, cadVars, confVars, timeVars, scrapeVars, storeVars, cycleVars, msgVars, chatVars, rateVars>>
  /\ wpc = "configs"
  /\ wConfig' = SweepConfigFile(wConfig, wSlot)
  /\ wpc' = "done"
  /\ UNCHANGED <<wSlot, wRun, wIdx>>

\* a run of monitor_job for slot k loads the record and awaits fetch_prices
SweepRunLoad(k) ==
  /\ UNCHANGED <<lockVars, fetchVars, poolVars, notifyVars, monVars, quotaVars, startVars, cadVars, confVars, timeVars, scrapeVars, storeVars, cycleVars, msgVars, chatVars, rateVars>>
  /\ wpc # "off"
  /\ wRun[k] = "none"
  /\ wSlot[k].st = "rec"
  /\ wRun' = [wRun EXCEPT ![k] = wSlot[k].start_time]
  /\ UNCHANGED <<wSlot, wConfig, wpc, wIdx>>

\* the run saves "start_time": state.get("start_time") with a new last_fetch;
\* open(file_path, 'w') creates the slot when it is absent
SweepRunSave(k) ==
  /\ UNCHANGED <<lockVars, fetchVars, poolVars, notifyVars, monVars, quotaVars, startVars, cadVars, confVars, timeVars, scrapeVars, storeVars, cycleVars, msgVars, chatVars, rateVars>>
  /\ wRun[k] # "none"
  /\ wSlot' = [wSlot EXCEPT ![k] = WRec(wRun[k], "recent")]
  /\ wRun' = [wRun EXCEPT ![k] = "none"]
  /\ UNCHANGED <<wConfig, wpc, wIdx>>

SweepNext ==
  \/ SweepStart
  \/ SweepMonitor
  \/ SweepMonitorsDone
  \/ SweepConfig
  \/ \E k \in SweepFiles :
       \/ SweepRunLoad(k)
       \/ SweepRunSave(k)

(***************************************************************************)
(* Part 10: the preference slot of one user: get_user_config and           *)
(* save_user_config of ConfigManager (config_manager.py) and               *)
(* get_user_config_async, get_user_config and save_user_config of          *)
(* flight_checker.py.  A date of 0 stands for a field that is not set.     *)
(***************************************************************************)

UAbsent == [st |-> "absent", fields |-> 0, created_at |-> 0, last_activity |-> 0]
UCorrupt == [st |-> "corrupt", fields |-> 0, created_at |-> 0, last_activity |-> 0]
URec(f, c, a) == [st |-> "rec", fields |-> f, created_at |-> c, last_activity |-> a]

NoCall == [fn |-> "none", arg |-> UAbsent, before |-> UAbsent, result |-> UAbsent, writes |-> 0, at |-> 0]

\* an exception left the call
URaised == [st |-> "raised", fields |-> 0, created_at |-> 0, last_activity |-> 0]

\* DEFAULT_USER_CONFIG.copy() with created_at and last_activity set to now
DefaultConfig(now) == URec(0, now, now)

\* records a caller passes to save_user_config
SaveArgs == {URec(f, c, a) : f \in 0..MaxFieldVal, c \in {0, 1}, a \in {0, 1}}

\* get_user_config of ConfigManager and of flight_checker.py: an existing file
\* is read, last_activity is set to now and the record is written back; when
\* the file is absent or does not parse the defaults are written and returned
GetUserConfigResult(file, now) ==
  IF file.st = "rec" THEN URec(file.fields, file.created_at, now) ELSE DefaultConfig(now)

\* ConfigManager.save_user_config: last_activity = now, created_at = now when
\* it is missing or empty, then save_json_data
SaveUserConfigRecord(c, now) ==
  URec(c.fields, IF c.created_at = 0 THEN now ELSE c.created_at, now)

ConfInit ==
  /\ uFile \in {UAbsent, UCorrupt} \cup {URec(f, 1, 1) : f \in 0..MaxFieldVal}
  /\ uNow = 2
  /\ uOut = NoCall
  /\ uPrev = NoCall
  /\ uOps = 0

ConfOff ==
  /\ uFile = UAbsent
  /\ uNow = 0
  /\ uOut = NoCall
  /\ uPrev = NoCall
  /\ uOps = MaxConfigOps

\* ConfigManager.get_user_config(user_id)
GetUserConfig ==
  /\ UNCHANGED <<lockVars, fetchVars, poolVars, notifyVars, monVars, quotaVars, startVars, cadVars, sweepVars, timeVars, scrapeVars, storeVars, cycleVars, msgVars, chatVars, rateVars>>
  /\ uOps < MaxConfigOps
  /\ uFile' = GetUserConfigResult(uFile, uNow)
  /\ uOut' = [fn |-> "ConfigManager.get_user_config", arg |-> UAbsent, before |-> uFile,
              result |-> GetUserConfigResult(uFile, uNow), writes |-> 1, at |-> uNow]
  /\ uPrev' = uOut
  /\ uNow' = uNow + 1
  /\ uOps' = uOps + 1

\* ConfigManager.save_user_config(user_id, config)
SaveUserConfig ==
  /\ UNCHANGED <<lockVars, fetchVars, poolVars, notifyVars, monVars, quotaVars, startVars, cadVars, sweepVars, timeVars, scrapeVars, storeVars, cycleVars, msgVars, chatVars, rateVars>>
  /\ uOps < MaxConfigOps
  /\ \E c \in SaveArgs :
       /\ uFile' = SaveUserConfigRecord(c, uNow)
       /\ uOut' = [fn |-> "ConfigManager.save_user_config", arg |-> c, before |-> uFile,
                   result |-> UAbsent, writes |-> 1, at |-> uNow]
  /\ uPrev' = uOut
  /\ uNow' = uNow + 1
  /\ uOps' = uOps + 1

\* get_user_config(user_id) of flight_checker.py
FcGetUserConfig ==
  /\ UNCHANGED <<lockVars, fetchVars, poolVars, notifyVars, monVars, quotaVars, startVars, cadVars, sweepVars, timeVars, scrapeVars, storeVars, cycleVars, msgVars, chatVars, rateVars>>
  /\ uOps < MaxConfigOps
  /\ uFile' = GetUserConfigResult(uFile, uNow)
  /\ uOut' = [fn |-> "get_user_config", arg |-> UAbsent, before |-> uFile,
              result |-> GetUserConfigResult(uFile, uNow), writes |-> 1, at |-> uNow]
  /\ uPrev' = uOut
  /\ uNow' = uNow + 1
  /\ uOps' = uOps + 1

\* get_user_config_async(user_id) of flight_checker.py: with an existing file
\* it runs get_user_config in file_executor; without one it reaches
\* "await loop.run_in_executor(...)" with loop unassigned and raises
\* UnboundLocalError before anything is written
FcGetUserConfigAsync ==
  /\ UNCHANGED <<lockVars, fetchVars, poolVars, notifyVars, monVars, quotaVars, startVars, cadVars, sweepVars, timeVars, scrapeVars, storeVars, cycleVars, msgVars, chatVars, rateVars>>
  /\ uOps < MaxConfigOps
  /\ IF uFile.st # "absent"
       THEN /\ uFile' = GetUserConfigResult(uFile, uNow)
            /\ uOut' = [fn |-> "get_user_config_async", arg |-> UAbsent, before |-> uFile,
                        result |-> GetUserConfigResult(uFile, uNow), writes |-> 1, at |-> uNow]
       ELSE /\ uFile' = uFile
            /\ uOut' = [fn |-> "get_user_config_async", arg |-> UAbsent, before |-> uFile,
                        result |-> URaised, writes |-> 0, at |-> uNow]
  /\ uPrev' = uOut
  /\ uNow' = uNow + 1
  /\ uOps' = uOps + 1

\* save_user_config(user_id, config) of flight_checker.py: the record is
\* written as it was passed
FcSaveUserConfig ==
  /\ UNCHANGED <<lockVars, fetchVars, poolVars, notifyVars, monVars, quotaVars, startVars, cadVars, sweepVars, timeVars, scrapeVars, storeVars, cycleVars, msgVars, chatVars, rateVars>>
  /\ uOps < MaxConfigOps
  /\ \E c \in SaveArgs :
       /\ uFile' = c
       /\ uOut' = [fn |-> "save_user_config", arg |-> c, before |-> uFile,
                   result |-> UAbsent, writes |-> 1, at |-> uNow]
  /\ uPrev' = uOut
  /\ uNow' = uNow + 1
  /\ uOps' = uOps + 1

ConfNext ==
  \/ GetUserConfig
  \/ SaveUserConfig
  \/ FcGetUserConfig
  \/ FcGetUserConfigAsync
  \/ FcSaveUserConfig

(***************************************************************************)
(* Part 11: check_time_restrictions(dep_time, ret_time, config), the same  *)
(* code in selenium_manager.py and flight_checker.py.                      *)
(***************************************************************************)

\* TIME_PERIODS in the order of the dictionary: (start, end) of each band
TIME_PERIODS ==
  << <<0, 6>>, <<6, 9>>, <<9, 12>>, <<12, 15>>, <<15, 18>>, <<18, 21>>, <<21, 24>> >>

Hours == FirstHour..MaxHour
\* the first and the last minute of each hour
Times == [hour : Hours, minute : {0, 59}]
\* values of outbound_exact_hour and inbound_exact_hour
ExactHours == {h \in Hours : FirstHour < h /\ h < MaxHour}
\* time(hour=h, minute=0)
HourLimit(h) == [hour |-> h, minute |-> 0]

\* a < b for datetime.time values
TimeLess(a, b) == a.hour < b.hour \/ (a.hour = b.hour /\ a.minute < b.minute)

\* the variant with bands that include their end hour
InPeriodsInclusiveEnd(t, periods) ==
  \E period \in periods :
    TIME_PERIODS[period][1] <= t.hour /\ t.hour <= TIME_PERIODS[period][2]

\* any(period_start <= t.hour < period_end for period in periods)
InPeriods(t, periods) ==
  \E period \in periods :
    TIME_PERIODS[period][1] <= t.hour /\ t.hour < TIME_PERIODS[period][2]

TimeConfigs ==
  [time_type : {"time_period", "exact"},
   outbound_periods : SUBSET (1..NumPeriods),
   inbound_periods : SUBSET (1..NumPeriods),
   outbound_exact_hour : ExactHours,
   inbound_exact_hour : ExactHours]

check_time_restrictions(dep_t, ret_t, config) ==
  IF config.time_type = "time_period"
    THEN IF ~InPeriods(dep_t, config.outbound_periods) THEN FALSE
         ELSE IF ~InPeriods(ret_t, config.inbound_periods) THEN FALSE
         ELSE TRUE
    ELSE IF TimeLess(HourLimit(config.outbound_exact_hour), dep_t) THEN FALSE
         ELSE IF TimeLess(ret_t, HourLimit(config.inbound_exact_hour)) THEN FALSE
         ELSE TRUE

TimeInit ==
  /\ tcConfig \in TimeConfigs
  /\ tcDep = HourLimit(0)
  /\ tcRet = HourLimit(0)
  /\ tcResult = FALSE
  /\ tcDone = FALSE

TimeOff ==
  /\ tcConfig = [time_type |-> "exact", outbound_periods |-> {}, inbound_periods |-> {},
                 outbound_exact_hour |-> 0, inbound_exact_hour |-> 0]
  /\ tcDep = HourLimit(0)
  /\ tcRet = HourLimit(0)
  /\ tcResult = FALSE
  /\ tcDone = TRUE

CheckTimeRestrictions ==
  /\ UNCHANGED <<lockVars, fetchVars, poolVars, notifyVars, monVars, quotaVars, startVars, cadVars, sweepVars, confVars, scrapeVars, storeVars, cycleVars, msgVars, chatVars, rateVars>>
  /\ ~tcDone
  /\ \E dep_t \in Times, ret_t \in Times :
       /\ tcDep' = dep_t
       /\ tcRet' = ret_t
       /\ tcResult' = check_time_restrictions(dep_t, ret_t, tcConfig)
  /\ tcDone' = TRUE
  /\ UNCHANGED tcConfig

TimeNext ==
  \/ CheckTimeRestrictions

(***************************************************************************)
(* Part 12: one attempt of fetch_prices: the choice of the config and      *)
(* SeleniumManager._fetch_single over the items of the page.  The retry    *)
(* loop around the attempt is Part 2.                                      *)
(***************************************************************************)

\* DEFAULT_USER_CONFIG: time_period, outbound 06-09 and 09-12, inbound
\* 12-15, 15-18 and 18-21, exact hours 9 and 15
DEFAULT_USER_CONFIG ==
  [time_type |-> "time_period", outbound_periods |-> {2, 3}, inbound_periods |-> {4, 5, 6},
   outbound_exact_hour |-> 9, inbound_exact_hour |-> 15]

\* preference records of U: the defaults, late bands, and exact hours
ScrapeUserConfigs ==
  { DEFAULT_USER_CONFIG,
    [DEFAULT_USER_CONFIG EXCEPT !.outbound_periods = {4}, !.inbound_periods = {7}],
    [DEFAULT_USER_CONFIG EXCEPT !.time_type = "exact", !.outbound_exact_hour = 14,
                                !.inbound_exact_hour = 16] }

\* an item of the page: a flight with a stopover, a text parse_flight_info
\* rejects, or a direct flight with its departure times and price
ViaItem == [kind |-> "via", dep |-> HourLimit(0), ret |-> HourLimit(0), price |-> 0]
UnparsedItem == [kind |-> "unparsed", dep |-> HourLimit(0), ret |-> HourLimit(0), price |-> 0]
FlightItems ==
  [kind : {"flight"}, dep : {HourLimit(8), HourLimit(14)}, ret : {HourLimit(16), HourLimit(22)},
   price : 1..MaxItemPrice]
Items == {ViaItem, UnparsedItem} \cup FlightItems
Pages == UNION {[1..n -> Items] : n \in 0..MaxItems}

\* the loop body of _fetch_single for one item; acc holds overall_price,
\* restricted_price and found_any_price
ScanItem(acc, item, config) ==
  IF item.kind # "flight" THEN acc
  ELSE [found_any_price |-> TRUE,
        overall_price |-> IF acc.overall_price = None \/ item.price < acc.overall_price
                            THEN item.price ELSE acc.overall_price,
        restricted_price |->
          IF /\ check_time_restrictions(item.dep, item.ret, config)
             /\ (acc.restricted_price = None \/ item.price < acc.restricted_price)
            THEN item.price ELSE acc.restricted_price]

RECURSIVE ScanItems(_, _, _, _)
ScanItems(acc, items, i, config) ==
  IF i > Len(items) THEN acc
  ELSE ScanItems(ScanItem(acc, items[i], config), items, i + 1, config)

ScrapeOutcome(kind, restricted, overall) ==
  [outcome |-> kind, restricted_price |-> restricted, overall_price |-> overall]

\* SeleniumManager._fetch_single(url, depart, arrive, config)
FetchSingle(items, config) ==
  IF Len(items) = 0 THEN ScrapeOutcome("NoFlightData", None, None)
  ELSE LET acc == ScanItems([found_any_price |-> FALSE, overall_price |-> None,
                             restricted_price |-> None], items, 1, config)
       IN IF ~acc.found_any_price
            THEN ScrapeOutcome("NoMatchingFlights", None, None)
            ELSE ScrapeOutcome("result", acc.restricted_price, acc.overall_price)

NoScrape == [fn |-> "none", config |-> DEFAULT_USER_CONFIG, got |-> ScrapeOutcome("none", None, None)]

ScrapeInit ==
  /\ scItems \in Pages
  /\ scUserConfig \in ScrapeUserConfigs
  /\ scHasRecord \in BOOLEAN
  /\ scUserId \in BOOLEAN
  /\ scOut = NoScrape

ScrapeOff ==
  /\ scItems = << >>
  /\ scUserConfig = DEFAULT_USER_CONFIG
  /\ scHasRecord = FALSE
  /\ scUserId = FALSE
  /\ scOut = [NoScrape EXCEPT !.fn = "off"]

\* fetch_prices of flight_checker.py: the config is the record of U when a
\* user id is given (get_user_config_async, which raises when the file is
\* missing), DEFAULT_USER_CONFIG otherwise
FcFetchPrices ==
  /\ UNCHANGED <<lockVars, fetchVars, poolVars, notifyVars, monVars, quotaVars, startVars, cadVars, sweepVars, confVars, timeVars, storeVars, cycleVars, msgVars, chatVars, rateVars>>
  /\ scOut.fn = "none"
  /\ scOut' =
       IF scUserId /\ ~scHasRecord
         THEN [fn |-> "flight_checker.fetch_prices", config |-> DEFAULT_USER_CONFIG,
               got |-> ScrapeOutcome("UnboundLocalError", None, None)]
         ELSE LET config == IF scUserId THEN scUserConfig ELSE DEFAULT_USER_CONFIG
              IN [fn |-> "flight_checker.fetch_prices", config |-> config,
                  got |-> FetchSingle(scItems, config)]
  /\ UNCHANGED <<scItems, scUserConfig, scHasRecord, scUserId>>

\* fetch_prices of selenium_manager.py: DEFAULT_USER_CONFIG.copy() on both
\* branches of "if user_id"
SmFetchPrices ==
  /\ UNCHANGED <<lockVars, fetchVars, poolVars, notifyVars, monVars, quotaVars, startVars, cadVars, sweepVars, confVars, timeVars, storeVars, cycleVars, msgVars, chatVars, rateVars>>
  /\ scOut.fn = "none"
  /\ scOut' = [fn |-> "selenium_manager.fetch_prices", config |-> DEFAULT_USER_CONFIG,
               got |-> FetchSingle(scItems, DEFAULT_USER_CONFIG)]
  /\ UNCHANGED <<scItems, scUserConfig, scHasRecord, scUserId>>

ScrapeNext ==
  \/ FcFetchPrices
  \/ SmFetchPrices

(***************************************************************************)
(* Part 13: save_json_data and load_json_data called one after the other   *)
(* on one slot (no other caller in between); the text of the slot is what  *)
(* json.dump writes and json.load parses.                                  *)
(***************************************************************************)

\* monitor records: the two prices monitor_setting and monitor_job store
StoreRecords == [restricted : 0..MaxStorePrice, overall : 0..MaxStorePrice]

\* JSON text as a sequence of tokens
TokOpen == [t |-> "{", key |-> "", val |-> 0]
TokClose == [t |-> "}", key |-> "", val |-> 0]
TokPair(k, v) == [t |-> "pair", key |-> k, val |-> v]

\* json.dump(data, f): the members in insertion order between braces
JsonDumpText(data) ==
  <<TokOpen, TokPair("restricted", data.restricted), TokPair("overall", data.overall), TokClose>>

\* json.load(f): one object and nothing before or after it; a repeated key
\* keeps its last value
JsonWellFormed(text) ==
  /\ Len(text) >= 2
  /\ text[1] = TokOpen
  /\ text[Len(text)] = TokClose
  /\ \A i \in 2..(Len(text) - 1) : text[i].t = "pair"

LastValue(text, k, default) ==
  LET idx == {i \in 1..Len(text) : text[i].t = "pair" /\ text[i].key = k}
  IN IF idx = {} THEN default ELSE text[CHOOSE i \in idx : \A j \in idx : j <= i].val

NoRecord == [restricted |-> 0, overall |-> 0]

LoadResult(kind, data) == [st |-> kind, data |-> data]

JsonLoadText(file) ==
  IF ~file.exists THEN LoadResult("FileNotFoundError", NoRecord)
  ELSE IF ~JsonWellFormed(file.text) THEN LoadResult("JSONDecodeError", NoRecord)
  ELSE LoadResult("ok", [restricted |-> LastValue(file.text, "restricted", 0),
                         overall |-> LastValue(file.text, "overall", 0)])

\* the variant open(file_path, 'a'): the text is kept
OpenForAppend(file) == file.text

\* open(file_path, 'w'): the file is created or truncated to length 0
OpenForWrite(file) == << >>

\* save_json_data(file_path, data): open with 'w', json.dump, close
SaveJsonDataFile(file, data) ==
  [exists |-> TRUE, text |-> OpenForWrite(file) \o JsonDumpText(data)]

StoreAbsent == [exists |-> FALSE, text |-> << >>]

StoreInit ==
  /\ stFile \in {StoreAbsent, [exists |-> TRUE, text |-> <<TokOpen>>]}
                  \cup {[exists |-> TRUE, text |-> JsonDumpText(d)] : d \in StoreRecords}
  /\ stLog = << >>

StoreOff ==
  /\ stFile = StoreAbsent
  /\ stLog = <<[op |-> "off", data |-> NoRecord, result |-> LoadResult("none", NoRecord),
                after |-> StoreAbsent]>>

\* save_json_data(hist_path, data)
StoreSave ==
  /\ UNCHANGED <<lockVars, fetchVars, poolVars, notifyVars, monVars, quotaVars, startVars, cadVars, sweepVars, confVars, timeVars, scrapeVars, cycleVars, msgVars, chatVars, rateVars>>
  /\ Len(stLog) < MaxStoreOps
  /\ \A i \in 1..Len(stLog) : stLog[i].op # "off"
  /\ \E data \in StoreRecords :
       /\ stFile' = SaveJsonDataFile(stFile, data)
       /\ stLog' = Append(stLog, [op |-> "save", data |-> data,
                                  result |-> LoadResult("none", NoRecord),
                                  after |-> SaveJsonDataFile(stFile, data)])

\* load_json_data(hist_path)
StoreLoad ==
  /\ UNCHANGED <<lockVars, fetchVars, poolVars, notifyVars, monVars, quotaVars, startVars, cadVars, sweepVars, confVars, timeVars, scrapeVars, cycleVars, msgVars, chatVars, rateVars>>
  /\ Len(stLog) < MaxStoreOps
  /\ \A i \in 1..Len(stLog) : stLog[i].op # "off"
  /\ stLog' = Append(stLog, [op |-> "load", data |-> NoRecord,
                             result |-> JsonLoadText(stFile), after |-> stFile])
  /\ UNCHANGED stFile

StoreNext ==
  \/ StoreSave
  \/ StoreLoad

(***************************************************************************)
(* Part 14: the record of one slot under runs of monitor_setting and       *)
(* monitor_job that follow one another (no other run in between), with     *)
(* start_time and last_fetch.  A user with a preference file is assumed.   *)
(***************************************************************************)

KAbsent == [st |-> "absent", start_time |-> 0, restricted |-> 0, overall |-> 0, last_fetch |-> 0]
KCorrupt == [st |-> "corrupt", start_time |-> 0, restricted |-> 0, overall |-> 0, last_fetch |-> 0]
KRec(s, r, o, l) == [st |-> "rec", start_time |-> s, restricted |-> r, overall |-> o, last_fetch |-> l]

\* what fetch_prices gives a handler: a result or one of the exceptions
FetchOutcomes ==
  {[kind |-> "result", restricted |-> f.restricted, overall |-> f.overall] :
     f \in FetchResults(SlotPrices)}
  \cup {[kind |-> e, restricted |-> None, overall |-> None] : e \in FetchFailures}

\* new_state_data of monitor_job
NewStateData(state, restricted, overall, now) ==
  KRec(state.start_time, Merge(restricted, state.restricted),
       Merge(overall, state.overall), now)

\* the record monitor_setting saves: "restricted or 0", "overall or 0"
CreatedStateData(restricted, overall, now) ==
  KRec(now, IF restricted = None THEN 0 ELSE restricted,
       IF overall = None THEN 0 ELSE overall, now)

NoRun == [fn |-> "none", read |-> KAbsent, fetch |-> [kind |-> "none", restricted |-> None, overall |-> None],
          wrote |-> FALSE, ended |-> "none"]

\* records monitor_setting can have written before the runs explored here
CycleInit ==
  /\ kSlot \in {KAbsent, KCorrupt} \cup
               {KRec(1, f.restricted, f.overall, 1) :
                  f \in {g \in [restricted : 0..MaxSlotPrice, overall : SlotPrices] :
                           g.restricted = 0 \/ g.overall <= g.restricted}}
  /\ kNow = 2
  /\ kLast = NoRun
  /\ kRuns = 0

CycleOff ==
  /\ kSlot = KAbsent
  /\ kNow = 0
  /\ kLast = NoRun
  /\ kRuns = MaxCycleRuns

\* monitor_setting for the key of the slot: a duplicate is rejected; after a
\* successful fetch the record is saved, after a failed one nothing is
MonitorSettingRun ==
  /\ UNCHANGED <<lockVars, fetchVars, poolVars, notifyVars, monVars, quotaVars, startVars, cadVars, sweepVars, confVars, timeVars, scrapeVars, storeVars, msgVars, chatVars, rateVars>>
  /\ kRuns < MaxCycleRuns
  /\ kSlot.st = "absent"
  /\ \E f \in FetchOutcomes :
       IF f.kind = "result"
         THEN /\ kSlot' = CreatedStateData(f.restricted, f.overall, kNow)
              /\ kLast' = [fn |-> "monitor_setting", read |-> kSlot, fetch |-> f,
                           wrote |-> TRUE, ended |-> "saved"]
         ELSE /\ kSlot' = kSlot
              /\ kLast' = [fn |-> "monitor_setting", read |-> kSlot, fetch |-> f,
                           wrote |-> FALSE, ended |-> "error_message"]
  /\ kNow' = kNow + 1
  /\ kRuns' = kRuns + 1

\* one run of monitor_job from "if not hist_path.exists()" to its return
MonitorJobRun ==
  /\ UNCHANGED <<lockVars, fetchVars, poolVars, notifyVars, monVars, quotaVars, startVars, cadVars, sweepVars, confVars, timeVars, scrapeVars, storeVars, msgVars, chatVars, rateVars>>
  /\ kRuns < MaxCycleRuns
  /\ kNow' = kNow + 1
  /\ kRuns' = kRuns + 1
  /\ IF kSlot.st = "absent"
       THEN /\ kSlot' = kSlot
            /\ kLast' = [NoRun EXCEPT !.fn = "monitor_job", !.read = kSlot,
                                      !.ended = "schedule_removal"]
       ELSE IF kSlot.st = "corrupt"
         THEN /\ kSlot' = KAbsent
              /\ kLast' = [NoRun EXCEPT !.fn = "monitor_job", !.read = kSlot,
                                        !.ended = "unlink, schedule_removal"]
         ELSE \E f \in FetchOutcomes :
                IF /\ f.kind = "NoMatchingFlightsException"
                   /\ (kSlot.restricted # 0 \/ kSlot.overall # 0)
                  THEN /\ kSlot' = kSlot
                       /\ kLast' = [fn |-> "monitor_job", read |-> kSlot, fetch |-> f,
                                    wrote |-> FALSE, ended |-> "UnboundLocalError"]
                  ELSE /\ kSlot' = NewStateData(kSlot, f.restricted, f.overall, kNow)
                       /\ kLast' = [fn |-> "monitor_job", read |-> kSlot, fetch |-> f,
                                    wrote |-> TRUE, ended |-> "saved"]

CycleNext ==
  \/ MonitorSettingRun
  \/ MonitorJobRun


(***************************************************************************)
(* Part 15: MessageManager, the registry of the status message of each     *)
(* user, in its two implementations (flight_checker.py, telegram_bot.py)   *)
(*                                                                         *)
(* monitor_setting registers the status message, awaits its updates and    *)
(* clears it; handlers of user updates run one at a time, so one call is   *)
(* in progress at a time.                                                  *)
(***************************************************************************)

MsgUsers == 1..NumMsgUsers
Messages == 1..MaxMessages
MsgImpls == {"flight_checker", "telegram_bot"}

\* no call of update_status_message since the last change of the registry
NoUpdate == [st |-> "idle", impl |-> "flight_checker", user_id |-> 1, telegram_bot |-> TRUE,
             registered |-> None, current_message |-> None, edits |-> 0, ret |-> None]

\* the variant that keeps the registration when the edit failed
AfterEditKeepFailed(registry, user_id, updated_message) ==
  IF updated_message # None THEN [registry EXCEPT ![user_id] = updated_message]
  ELSE registry

\* "if updated_message: self.status_messages[user_id] = updated_message
\*  else: del self.status_messages[user_id]"
AfterEdit(registry, user_id, updated_message) ==
  IF updated_message # None THEN [registry EXCEPT ![user_id] = updated_message]
  ELSE [registry EXCEPT ![user_id] = None]

\* what safe_edit_message(message, ...) returns: the edited message, the
\* message itself ("message is not modified"), the message of reply_text
\* ("message can't be edited"), or None after the last failure
SafeEditResults(message) == Messages \cup {None}

MsgInit ==
  /\ status_messages = [u \in MsgUsers |-> None]
  /\ edit_locks = [u \in MsgUsers |-> FALSE]
  /\ mCall = NoUpdate
  /\ mOps = 0

MsgOff ==
  /\ status_messages = [u \in MsgUsers |-> None]
  /\ edit_locks = [u \in MsgUsers |-> FALSE]
  /\ mCall = [NoUpdate EXCEPT !.st = "off"]
  /\ mOps = MaxMsgOps

\* set_status_message(user_id, message)
SetStatusMessage ==
  /\ UNCHANGED <<lockVars, fetchVars, poolVars, notifyVars, monVars, quotaVars, startVars, cadVars, sweepVars, confVars, timeVars, scrapeVars, storeVars, cycleVars, chatVars, rateVars>>
  /\ mCall.st \in {"idle", "returned"}
  /\ mOps < MaxMsgOps
  /\ \E u \in MsgUsers, m \in Messages :
       status_messages' = [status_messages EXCEPT ![u] = m]
  /\ mCall' = NoUpdate
  /\ mOps' = mOps + 1
  /\ UNCHANGED edit_locks

\* clear_status_message(user_id)
ClearStatusMessage ==
  /\ UNCHANGED <<lockVars, fetchVars, poolVars, notifyVars, monVars, quotaVars, startVars, cadVars, sweepVars, confVars, timeVars, scrapeVars, storeVars, cycleVars, chatVars, rateVars>>
  /\ mCall.st \in {"idle", "returned"}
  /\ mOps < MaxMsgOps
  /\ \E u \in MsgUsers :
       status_messages' = [status_messages EXCEPT ![u] = None]
  /\ mCall' = NoUpdate
  /\ mOps' = mOps + 1
  /\ UNCHANGED edit_locks

\* update_status_message up to its await of safe_edit_message.  The version
\* of telegram_bot.py returns None at once when no telegram_bot is passed;
\* both versions take the lock of the user, read the registry and return None
\* when it holds no message of the user
UpdateCall(impl, u, bot) ==
  /\ mCall.st \in {"idle", "returned"}
  /\ mOps < MaxMsgOps
  /\ mOps' = mOps + 1
  /\ UNCHANGED status_messages
  /\ IF impl = "telegram_bot" /\ ~bot
       THEN /\ mCall' = [st |-> "returned", impl |-> impl, user_id |-> u, telegram_bot |-> bot,
                         registered |-> status_messages[u], current_message |-> None,
                         edits |-> 0, ret |-> None]
            /\ UNCHANGED edit_locks
       ELSE /\ ~edit_locks[u]
            /\ IF status_messages[u] = None
                 THEN /\ mCall' = [st |-> "returned", impl |-> impl, user_id |-> u, telegram_bot |-> bot,
                                   registered |-> None, current_message |-> None,
                                   edits |-> 0, ret |-> None]
                      /\ UNCHANGED edit_locks
                 ELSE /\ mCall' = [st |-> "editing", impl |-> impl, user_id |-> u, telegram_bot |-> bot,
                                   registered |-> status_messages[u],
                                   current_message |-> status_messages[u],
                                   edits |-> 1, ret |-> None]
                      /\ edit_locks' = [edit_locks EXCEPT ![u] = TRUE]

\* message_manager.update_status_message(user_id, text) of flight_checker.py
FcUpdateStatusMessage ==
  /\ UNCHANGED <<lockVars, fetchVars, poolVars, notifyVars, monVars, quotaVars, startVars, cadVars, sweepVars, confVars, timeVars, scrapeVars, storeVars, cycleVars, chatVars, rateVars>>
  /\ \E u \in MsgUsers : UpdateCall("flight_checker", u, TRUE)

\* MessageManager.update_status_message(user_id, text, telegram_bot=...) of
\* telegram_bot.py; telegram_bot defaults to None
TbUpdateStatusMessage ==
  /\ UNCHANGED <<lockVars, fetchVars, poolVars, notifyVars, monVars, quotaVars, startVars, cadVars, sweepVars, confVars, timeVars, scrapeVars, storeVars, cycleVars, chatVars, rateVars>>
  /\ \E u \in MsgUsers, bot \in BOOLEAN : UpdateCall("telegram_bot", u, bot)

\* safe_edit_message returns: the registry is updated, the lock is released
\* and the call returns
UpdateEdited ==
  /\ UNCHANGED <<lockVars, fetchVars, poolVars, notifyVars, monVars, quotaVars, startVars, cadVars, sweepVars, confVars, timeVars, scrapeVars, storeVars, cycleVars, chatVars, rateVars>>
  /\ mCall.st = "editing"
  /\ \E updated_message \in SafeEditResults(mCall.current_message) :
       /\ status_messages' = AfterEdit(status_messages, mCall.user_id, updated_message)
       /\ mCall' = [mCall EXCEPT !.st = "returned", !.ret = updated_message]
  /\ edit_locks' = [edit_locks EXCEPT ![mCall.user_id] = FALSE]
  /\ UNCHANGED mOps

MsgNext ==
  \/ SetStatusMessage
  \/ ClearStatusMessage
  \/ FcUpdateStatusMessage
  \/ TbUpdateStatusMessage
  \/ UpdateEdited


(***************************************************************************)
(* Part 16: /cancel and cancel_callback on the slots of several users      *)
(*                                                                         *)
(* /cancel answers with an inline keyboard: one button "cancel_<file>" for *)
(* each slot of the sender and a button "cancel_all".  The callback query  *)
(* of a button carries the id of the user who pressed it; in a chat with   *)
(* several members that need not be the user the keyboard was built for.   *)
(* None of the users is an administrator.                                  *)
(***************************************************************************)

ChatUsers == 1..NumChatUsers
ChatKeys == 1..NumChatKeys

\* the slots price_<uid>_<key>.json
HistFiles == [uid : ChatUsers, key : ChatKeys]

\* callback_data of the buttons
CancelAllData == [kind |-> "cancel_all", file |-> [uid |-> 1, key |-> 1]]
CancelFileData(f) == [kind |-> "cancel_file", file |-> f]

\* "p for p in DATA_DIR.iterdir() if PATTERN.fullmatch(p.name) and
\*  int(PATTERN.fullmatch(p.name).group('uid')) == user_id"
FilesOfUser(dir, user_id) == {p \in dir : p.uid = user_id}

\* the files cancel_callback unlinks and whose jobs it removes: all files of
\* the user for "cancel_all", the named file for "cancel_<file>" when it exists
CancelTargets(dir, user_id, data) ==
  IF data.kind = "cancel_all" THEN FilesOfUser(dir, user_id)
  ELSE IF data.file \in dir THEN {data.file}
  ELSE {}

NoPress == [user_id |-> 0, data |-> CancelAllData, unlinked |-> {}, removed |-> {}]

ChatInit ==
  /\ chDir \in SUBSET HistFiles
  /\ chJobs = chDir
  /\ chButtons = {}
  /\ chLast = NoPress
  /\ chOps = 0

ChatOff ==
  /\ chDir = {}
  /\ chJobs = {}
  /\ chButtons = {}
  /\ chLast = NoPress
  /\ chOps = MaxCancelOps

\* /cancel of user_id: the keyboard for the slots of that user
CancelCommand ==
  /\ UNCHANGED <<lockVars, fetchVars, poolVars, notifyVars, monVars, quotaVars, startVars, cadVars, sweepVars, confVars, timeVars, scrapeVars, storeVars, cycleVars, msgVars, rateVars>>
  /\ chOps < MaxCancelOps
  /\ \E user_id \in ChatUsers :
       /\ FilesOfUser(chDir, user_id) # {}
       /\ chButtons' = chButtons \cup {CancelAllData} \cup
                         {CancelFileData(f) : f \in FilesOfUser(chDir, user_id)}
  /\ chOps' = chOps + 1
  /\ UNCHANGED <<chDir, chJobs, chLast>>

\* cancel_callback for a button of a keyboard in the chat, pressed by user_id
CancelCallback ==
  /\ UNCHANGED <<lockVars, fetchVars, poolVars, notifyVars, monVars, quotaVars, startVars, cadVars, sweepVars, confVars, timeVars, scrapeVars, storeVars, cycleVars, msgVars, rateVars>>
  /\ chOps < MaxCancelOps
  /\ \E user_id \in ChatUsers, data \in chButtons :
       LET targets == CancelTargets(chDir, user_id, data) IN
         /\ chDir' = chDir \ targets
         /\ chJobs' = chJobs \ targets
         /\ chLast' = [user_id |-> user_id, data |-> data,
                       unlinked |-> targets, removed |-> chJobs \cap targets]
  /\ chOps' = chOps + 1
  /\ UNCHANGED chButtons

ChatNext ==
  \/ CancelCommand
  \/ CancelCallback


(***************************************************************************)
(* Part 17: RateLimiter.is_allowed                                         *)
(*                                                                         *)
(* time.time() is read once in each call; the readings of successive calls *)
(* do not decrease.                                                        *)
(***************************************************************************)

\* a caller and one other user
RateUsers == {1, 2}
ClockTimes == 0..MaxClock

RECURSIVE PruneOldInclusive(_, _, _)
\* the variant that also drops a record exactly time_window old
PruneOldInclusive(user_calls, now, window) ==
  IF user_calls # << >> /\ now - Head(user_calls) >= window
    THEN PruneOldInclusive(Tail(user_calls), now, window)
    ELSE user_calls

RECURSIVE PruneOld(_, _, _)
\* "while user_calls and now - user_calls[0] > self.time_window:
\*      user_calls.pop(0)"
PruneOld(user_calls, now, window) ==
  IF user_calls # << >> /\ now - Head(user_calls) > window
    THEN PruneOld(Tail(user_calls), now, window)
    ELSE user_calls

NoRateCall == [user_id |-> 0, ret |-> FALSE]

\* the allowed calls that a window ending at now or later can still contain
StillInWindow(allowed, now, window) == SelectSeq(allowed, LAMBDA t : now - t <= window)

RateInit ==
  /\ max_calls \in 1..MaxCalls
  /\ time_window \in 1..MaxWindow
  /\ calls = [u \in RateUsers |-> << >>]
  /\ rNow = 0
  /\ rAllowed = [u \in RateUsers |-> << >>]
  /\ rLast = NoRateCall

RateOff ==
  /\ max_calls = 0
  /\ time_window = 0
  /\ calls = [u \in RateUsers |-> << >>]
  /\ rNow = MaxClock
  /\ rAllowed = [u \in RateUsers |-> << >>]
  /\ rLast = NoRateCall

\* the clock advances between two calls
ClockTick ==
  /\ UNCHANGED <<lockVars, fetchVars, poolVars, notifyVars, monVars, quotaVars, startVars, cadVars, sweepVars, confVars, timeVars, scrapeVars, storeVars, cycleVars, msgVars, chatVars>>
  /\ max_calls > 0
  /\ rNow < MaxClock
  /\ rNow' = rNow + 1
  /\ rAllowed' = [u \in RateUsers |-> StillInWindow(rAllowed[u], rNow', time_window)]
  /\ UNCHANGED <<max_calls, time_window, calls, rLast>>

\* is_allowed(user_id) at the reading rNow of the clock; rAllowed keeps the
\* times of the calls that returned True, as long as a window can contain them
IsAllowed ==
  /\ UNCHANGED <<lockVars, fetchVars, poolVars, notifyVars, monVars, quotaVars, startVars, cadVars, sweepVars, confVars, timeVars, scrapeVars, storeVars, cycleVars, msgVars, chatVars>>
  /\ max_calls > 0
  /\ \E user_id \in RateUsers :
       LET user_calls == PruneOld(calls[user_id], rNow, time_window) IN
         IF Len(user_calls) >= max_calls
           THEN /\ calls' = [calls EXCEPT ![user_id] = user_calls]
                /\ rLast' = [user_id |-> user_id, ret |-> FALSE]
                /\ UNCHANGED rAllowed
           ELSE /\ calls' = [calls EXCEPT ![user_id] = Append(user_calls, rNow)]
                /\ rLast' = [user_id |-> user_id, ret |-> TRUE]
                /\ rAllowed' = [rAllowed EXCEPT ![user_id] = Append(@, rNow)]
  /\ UNCHANGED <<max_calls, time_window, rNow>>

RateNext ==
  \/ ClockTick
  \/ IsAllowed

Init == MonInit /\ LockOff /\ FetchOff /\ PoolOff /\ NotifyOff /\ QuotaOff /\ StartOff /\ CadOff /\ SweepOff /\ ConfOff /\ TimeOff /\ ScrapeOff /\ StoreOff /\ CycleOff /\ MsgOff /\ ChatOff /\ RateOff

Spec == Init /\ [][Next]_vars

InitLock == LockInit /\ FetchOff /\ PoolOff /\ NotifyOff /\ MonOff /\ QuotaOff /\ StartOff /\ CadOff /\ SweepOff /\ ConfOff /\ TimeOff /\ ScrapeOff /\ StoreOff /\ CycleOff /\ MsgOff /\ ChatOff /\ RateOff

SpecLock == InitLock /\ [][LockNext]_vars

\* the steps of thread t between flock and the return of the call
ThreadStep(t) ==
  \/ SaveTruncate(t)
  \/ SaveWrite(t)
  \/ LoadRead(t)
  \/ Unflock(t)
  \/ LockExists(t)
  \/ LockUnlink(t)
  \/ LockClose(t)

\* the calls start on a slot path that holds no file yet
InitLockFair == LockInit /\ slotFile = Absent /\ FetchOff /\ PoolOff /\ NotifyOff /\ MonOff /\ QuotaOff /\ StartOff /\ CadOff /\ SweepOff /\ ConfOff /\ TimeOff /\ ScrapeOff /\ StoreOff /\ CycleOff /\ MsgOff /\ ChatOff /\ RateOff

\* a thread that has entered save_json_data / load_json_data runs on to its
\* return, and a flock request that is free again and again is granted
SpecLockFair ==
  /\ InitLockFair
  /\ [][LockNext]_vars
  /\ \A t \in Threads :
       /\ SF_vars(Flock(t))
       /\ WF_vars(ThreadStep(t))

InitFetch == FetchInit /\ LockOff /\ PoolOff /\ NotifyOff /\ MonOff /\ QuotaOff /\ StartOff /\ CadOff /\ SweepOff /\ ConfOff /\ TimeOff /\ ScrapeOff /\ StoreOff /\ CycleOff /\ MsgOff /\ ChatOff /\ RateOff

SpecFetch == InitFetch /\ [][FetchNext]_vars

\* every attempt and every sleep of fetch_prices ends: the page wait of an
\* attempt is bounded by WebDriverWait and the sleep by wait_time
SpecFetchFair == InitFetch /\ [][FetchNext]_vars /\ WF_vars(FetchNext)

InitPool == PoolInit /\ LockOff /\ FetchOff /\ NotifyOff /\ MonOff /\ QuotaOff /\ StartOff /\ CadOff /\ SweepOff /\ ConfOff /\ TimeOff /\ ScrapeOff /\ StoreOff /\ CycleOff /\ MsgOff /\ ChatOff /\ RateOff

SpecPool == InitPool /\ [][PoolNext]_vars

\* an idle worker thread takes queued work, and every _fetch_single ends (its
\* page wait is bounded by WebDriverWait(driver, 40))
SpecPoolFair ==
  /\ InitPool
  /\ [][PoolNext]_vars
  /\ WF_vars(WorkerTake)
  /\ \A r \in Requests : WF_vars(FetchSingleEnd(r))

InitNotify == NotifyInit /\ LockOff /\ FetchOff /\ PoolOff /\ MonOff /\ QuotaOff /\ StartOff /\ CadOff /\ SweepOff /\ ConfOff /\ TimeOff /\ ScrapeOff /\ StoreOff /\ CycleOff /\ MsgOff /\ ChatOff /\ RateOff

SpecNotify == InitNotify /\ [][NotifyNext]_vars

InitQuota == QuotaInit /\ LockOff /\ FetchOff /\ PoolOff /\ NotifyOff /\ MonOff /\ StartOff /\ CadOff /\ SweepOff /\ ConfOff /\ TimeOff /\ ScrapeOff /\ StoreOff /\ CycleOff /\ MsgOff /\ ChatOff /\ RateOff

SpecQuota == InitQuota /\ [][QuotaNext]_vars

InitStart == StartInit /\ LockOff /\ FetchOff /\ PoolOff /\ NotifyOff /\ MonOff /\ QuotaOff /\ CadOff /\ SweepOff /\ ConfOff /\ TimeOff /\ ScrapeOff /\ StoreOff /\ CycleOff /\ MsgOff /\ ChatOff /\ RateOff

SpecStart == InitStart /\ [][StartNext]_vars

InitCadence == CadInit /\ LockOff /\ FetchOff /\ PoolOff /\ NotifyOff /\ MonOff /\ QuotaOff /\ StartOff /\ SweepOff /\ ConfOff /\ TimeOff /\ ScrapeOff /\ StoreOff /\ CycleOff /\ MsgOff /\ ChatOff /\ RateOff

SpecCadence == InitCadence /\ [][CadNext]_vars

InitSweep == SweepInit /\ LockOff /\ FetchOff /\ PoolOff /\ NotifyOff /\ MonOff /\ QuotaOff /\ StartOff /\ CadOff /\ ConfOff /\ TimeOff /\ ScrapeOff /\ StoreOff /\ CycleOff /\ MsgOff /\ ChatOff /\ RateOff

SpecSweep == InitSweep /\ [][SweepNext]_vars

InitConf == ConfInit /\ LockOff /\ FetchOff /\ PoolOff /\ NotifyOff /\ MonOff /\ QuotaOff /\ StartOff /\ CadOff /\ SweepOff /\ TimeOff /\ ScrapeOff /\ StoreOff /\ CycleOff /\ MsgOff /\ ChatOff /\ RateOff

SpecConf == InitConf /\ [][ConfNext]_vars

InitTime == TimeInit /\ LockOff /\ FetchOff /\ PoolOff /\ NotifyOff /\ MonOff /\ QuotaOff /\ StartOff /\ CadOff /\ SweepOff /\ ConfOff /\ ScrapeOff /\ StoreOff /\ CycleOff /\ MsgOff /\ ChatOff /\ RateOff

SpecTime == InitTime /\ [][TimeNext]_vars

InitScrape == ScrapeInit /\ LockOff /\ FetchOff /\ PoolOff /\ NotifyOff /\ MonOff /\ QuotaOff /\ StartOff /\ CadOff /\ SweepOff /\ ConfOff /\ TimeOff /\ StoreOff /\ CycleOff /\ MsgOff /\ ChatOff /\ RateOff

SpecScrape == InitScrape /\ [][ScrapeNext]_vars

InitStore == StoreInit /\ LockOff /\ FetchOff /\ PoolOff /\ NotifyOff /\ MonOff /\ QuotaOff /\ StartOff /\ CadOff /\ SweepOff /\ ConfOff /\ TimeOff /\ ScrapeOff /\ CycleOff /\ MsgOff /\ ChatOff /\ RateOff

SpecStore == InitStore /\ [][StoreNext]_vars

InitCycle == CycleInit /\ LockOff /\ FetchOff /\ PoolOff /\ NotifyOff /\ MonOff /\ QuotaOff /\ StartOff /\ CadOff /\ SweepOff /\ ConfOff /\ TimeOff /\ ScrapeOff /\ StoreOff /\ MsgOff /\ ChatOff /\ RateOff

SpecCycle == InitCycle /\ [][CycleNext]_vars

InitMsg == MsgInit /\ LockOff /\ FetchOff /\ PoolOff /\ NotifyOff /\ MonOff /\ QuotaOff /\ StartOff /\ CadOff /\ SweepOff /\ ConfOff /\ TimeOff /\ ScrapeOff /\ StoreOff /\ CycleOff /\ ChatOff /\ RateOff

SpecMsg == InitMsg /\ [][MsgNext]_vars

InitChat == ChatInit /\ LockOff /\ FetchOff /\ PoolOff /\ NotifyOff /\ MonOff /\ QuotaOff /\ StartOff /\ CadOff /\ SweepOff /\ ConfOff /\ TimeOff /\ ScrapeOff /\ StoreOff /\ CycleOff /\ MsgOff /\ RateOff

SpecChat == InitChat /\ [][ChatNext]_vars

InitRate == RateInit /\ LockOff /\ FetchOff /\ PoolOff /\ NotifyOff /\ MonOff /\ QuotaOff /\ StartOff /\ CadOff /\ SweepOff /\ ConfOff /\ TimeOff /\ ScrapeOff /\ StoreOff /\ CycleOff /\ MsgOff /\ ChatOff

SpecRate == InitRate /\ [][RateNext]_vars

\* C1: a load never reads the slot while a save has truncated it but not
\* finished writing it; every load that succeeds returns one record that some
\* save wrote in full, never a mixture.
C1_NoPartialRead == ~sawPartial

\* C5: when an attempt fails with NoFlightData or NoMatchingFlights no further
\* attempt is made: that attempt is the only one executed and its error is
\* what fetch_prices raises.
C5_TerminalNotRetried ==
  \A k \in 1..Len(fLog) :
    fLog[k].outcome \in TerminalErrors =>
      /\ Len(fLog) = 1
      /\ fpc = "raised"
      /\ fResult = Raised(fLog[k].outcome)

\* C6 (safety part): at most max_retries attempts are executed; a transient
\* failure of attempt k is followed by a sleep of 5*k seconds before attempt
\* k+1 starts, and by no sleep when k is the last attempt; fetch_prices returns
\* the result of the first successful attempt and raises only after attempt
\* number max_retries has failed.
C6_RetryInv ==
  /\ Len(fLog) <= max_retries
  /\ \A k \in 1..Len(fLog) :
       fLog[k].outcome = "Exception" =>
         /\ fLog[k].wait = (IF k < max_retries THEN 5 * k ELSE 0)
         /\ k < Len(fLog) => fLog[k + 1].started - fLog[k].ended = 5 * k
  /\ fpc = "returned" =>
       /\ fLog[Len(fLog)].outcome = "ok"
       /\ \A k \in 1..(Len(fLog) - 1) : fLog[k].outcome # "ok"
       /\ fResult.kind = "return"
  /\ fpc = "raised" =>
       /\ Len(fLog) = max_retries
       /\ \A k \in 1..Len(fLog) : fLog[k].outcome \notin {"ok", "pending"}
       /\ fResult.kind = "raise"
  /\ (\E k \in 1..Len(fLog) : fLog[k].outcome = "ok") => fpc = "returned"

\* C6: the safety part holds throughout and every call of fetch_prices ends,
\* by returning or by raising.
C6_BoundedRetry == []C6_RetryInv /\ <>(fpc \in {"returned", "raised"})

\* three transient failures with max_retries = 3: sleeps of 5 and 10 seconds,
\* none after the third attempt, then the raise
C6_Witness ==
  /\ max_retries = 3
  /\ fpc = "raised"
  /\ Len(fLog) = 3
  /\ \A k \in 1..3 : fLog[k].outcome = "Exception"
  /\ fClock = 15

Queued(r) == \E i \in 1..Len(pQueue) : pQueue[i] = r

\* C7 (safety part): never more than max_workers executions of _fetch_single
\* run at once, and no request is executed twice.
C7_PoolInv ==
  /\ Cardinality(pRunning) <= max_workers
  /\ active_tasks <= max_workers
  /\ \A r \in Requests : pStarts[r] <= 1

\* C7: at most max_workers fetch executions run concurrently, and every
\* request that waits in the queue of the pool is eventually executed.
C7_BoundedPool ==
  /\ []C7_PoolInv
  /\ \A r \in Requests : Queued(r) ~> (r \in pRunning \cup pDone)

\* with max_workers = 2: a request that was submitted while two fetches were
\* running is executed now, the pool is full again and a request still waits
C7_Witness ==
  /\ max_workers = 2
  /\ Cardinality(pRunning) = 2
  /\ pQueue # <<>>
  /\ \E r \in pWaited : r \in pRunning

\* C2: at most one run of monitor_job is in flight for the monitor key at any
\* time, also right after startup recovery and right after monitor creation.
C2_OneCycleInFlight == Cardinality(InFlight) <= 1

\* C3: once the monitor is cancelled its slot stays absent until a new
\* create-monitor request writes it: a run in flight at the cancel does not
\* write the slot.
C3_CancelledSlotStaysAbsent == cancelled => hist = SlotAbsent

\* C4: after the monitor has been cancelled no price notification for it is
\* sent to the user.
C4_NoNotificationAfterCancel == \A m \in sent : ~m.afterCancel

\* the price lines the notification scope of the user enables
RestrictedEnabled == nCase.config.notification_price_type \in {"RESTRICTED_ONLY", "BOTH"}
OverallEnabled == nCase.config.notification_price_type \in {"OVERALL_ONLY", "BOTH"}

\* C8: in PRICE_DROP_THRESHOLD mode with threshold amount T, for old > 0 and
\* new < old, an enabled price line notifies iff old - new >= T.
C8_ThresholdIff ==
  (nOut.decided /\ nCase.config.notification_preference = "PRICE_DROP_THRESHOLD") =>
    /\ (RestrictedEnabled /\ nCase.new.restricted # None /\ nCase.old_restr > 0
          /\ nCase.new.restricted < nCase.old_restr) =>
         (nOut.restricted_line <=>
            nCase.old_restr - nCase.new.restricted >= nCase.config.notification_threshold_amount)
    /\ (OverallEnabled /\ nCase.old_overall > 0 /\ nCase.new.overall < nCase.old_overall) =>
         (nOut.overall_line <=>
            nCase.old_overall - nCase.new.overall >= nCase.config.notification_threshold_amount)

\* C9: in every mode other than TARGET_PRICE_REACHED a line whose stored old
\* price is 0 never notifies, whatever the new price is.
C9_NoNotifyOnFirstObservation ==
  (nOut.decided /\ nCase.config.notification_preference # "TARGET_PRICE_REACHED") =>
    /\ nCase.old_restr = 0 => ~nOut.restricted_line
    /\ nCase.old_overall = 0 => ~nOut.overall_line
    /\ (nCase.old_restr = 0 /\ nCase.old_overall = 0) => nOut.messages = 0

\* a decision in PRICE_DROP_ANY mode about a restricted price seen for the
\* first time: the line does not notify
C9_Witness ==
  /\ nOut.decided
  /\ nCase.config.notification_preference = "PRICE_DROP_ANY"
  /\ nCase.old_restr = 0
  /\ nCase.new.restricted = 1
  /\ ~nOut.restricted_line

\* C10: in TARGET_PRICE_REACHED mode with a target price set, an enabled line
\* notifies iff new <= target price, whatever the old price is.
C10_TargetIff ==
  (nOut.decided /\ nCase.config.notification_preference = "TARGET_PRICE_REACHED"
     /\ nCase.config.notification_target_price # None) =>
    /\ (RestrictedEnabled /\ nCase.new.restricted # None) =>
         (nOut.restricted_line <=>
            nCase.new.restricted <= nCase.config.notification_target_price)
    /\ OverallEnabled =>
         (nOut.overall_line <=> nCase.new.overall <= nCase.config.notification_target_price)

\* C11: in ANY_PRICE_CHANGE mode an enabled price line notifies iff its stored
\* price is above 0 and the new price differs from it: a rise and a fall both
\* notify, an unchanged price does not.
C11_AnyChangeIff ==
  (nOut.decided /\ nCase.config.notification_preference = "ANY_PRICE_CHANGE") =>
    /\ (RestrictedEnabled /\ nCase.new.restricted # None) =>
         (nOut.restricted_line <=>
            (nCase.old_restr > 0 /\ nCase.new.restricted # nCase.old_restr))
    /\ OverallEnabled =>
         (nOut.overall_line <=>
            (nCase.old_overall > 0 /\ nCase.new.overall # nCase.old_overall))

\* C12: a price line triggers a notification only when the notification scope
\* of the user enables it: no restricted line under OVERALL_ONLY, no overall
\* line under RESTRICTED_ONLY, and no message from a line that is not enabled.
C12_ScopeEnablesLine ==
  nOut.decided =>
    /\ nOut.restricted_line => RestrictedEnabled
    /\ nOut.overall_line => OverallEnabled
    /\ nOut.price_change_occurred =>
         \/ RestrictedEnabled /\ nOut.restricted_line
         \/ OverallEnabled /\ nOut.overall_line

\* the positions of a run of monitor_job between its load and its save
BeforeSave == {"fetching", "no_matching", "sending", "send_failed"}

\* C13: a stored price that is nonzero never increases: the record a cycle
\* prepares for its save holds, for each price line, a price that is not above
\* the nonzero price the cycle read from the slot.
C13_StoredPriceNeverIncreases ==
  [][\A j \in JobIds :
       (cpc[j] = "fetching" /\ cpc'[j] \in {"sending", "saving"}) =>
         /\ cOld[j].restricted > 0 => cNew'[j].restricted <= cOld[j].restricted
         /\ cOld[j].overall > 0 => cNew'[j].overall <= cOld[j].overall]_vars

\* C14: a cycle that has read a parseable slot of a monitor that is not
\* cancelled does not end before it has written the slot, whatever the outcome
\* of the fetch and of the delivery.
C14_CycleEndsWithSave ==
  [][\A j \in JobIds :
       (cpc[j] \in BeforeSave /\ ~cancelled /\ ~cancelled') => cpc'[j] # "idle"]_vars

\* C15: when the fetch of a cycle ended with NoMatchingFlights and a stored
\* price is nonzero, the handler delivers the informational message, the run
\* goes on to save the stored prices and the repeating job stays scheduled.
C15_NoMatchingNoticeSent ==
  [][\A j \in JobIds :
       (cpc[j] = "no_matching" /\ cpc'[j] # "no_matching") =>
         /\ \E m \in sent' : m.kind = "no_matching_flights"
         /\ cpc'[j] = "saving"
         /\ job'[j] = job[j]]_vars

\* the stored record lets a cycle that fetches the same prices again decide
\* to notify
Redetectable(rec) ==
  Decision(rec.restricted, rec.overall, rec.restricted, rec.overall).price_change_occurred

\* C16: when the delivery of a price-drop notification fails, the record the
\* cycle goes on to store still lets a later cycle detect the drop and notify
\* it again.
C16_FailedDeliveryRedetected ==
  [][\A j \in JobIds :
       (cpc[j] = "send_failed" /\ cpc'[j] = "saving") => Redetectable(cNew'[j])]_vars

\* the repeating jobs scheduled under the name of the slot
RepeatingJobs == {j \in JobIds : NamedAfterSlot(j) /\ job[j]}

\* C17: a create-monitor request for the key of an existing monitor is
\* rejected, so at any time at most one repeating job is scheduled for the key.
C17_OneRepeatingJobPerKey == Cardinality(RepeatingJobs) <= 1

\* C18: after any sequence of create, cancel, background-cycle and
\* retention-sweep operations the user owns at most MAX_MONITORS slots.
C18_SlotsWithinLimit == Cardinality(dataDir) <= MAX_MONITORS

\* jobs of a kind registered for file i
JobsOf(i, kind) == {n \in 1..Len(sJobs) : sJobs[n].file = i /\ sJobs[n].kind = kind}

\* file i is a parseable slot whose name matches the identity pattern
Restorable(i) == sFiles[i].kind \in {"missing", "invalid", "ok"}

\* C19: for every parseable slot with a matching name that on_startup has
\* processed exactly one repeating job is registered, and when its last_fetch
\* is readable a catch-up job is registered iff now - last_fetch >= interval
\* (none when it is smaller or last_fetch lies in the future).
C19_StartupJobs ==
  \A i \in 1..sIdx :
    /\ Restorable(i) => Cardinality(JobsOf(i, "repeating")) = 1
    /\ sFiles[i].kind = "ok" =>
         /\ Cardinality(JobsOf(i, "once")) <= 1
         /\ Cardinality(JobsOf(i, "once")) = 1 <=> sFiles[i].elapsed >= Interval

\* a slot fetched exactly one interval ago gets the catch-up job and the
\* repeating job, a slot with last_fetch in the future only the repeating job
C19_Witness ==
  /\ \E i \in 1..sIdx :
       /\ sFiles[i] = SlotFile("ok", Interval)
       /\ Cardinality(JobsOf(i, "once")) = 1
       /\ Cardinality(JobsOf(i, "repeating")) = 1
  /\ \E i \in 1..sIdx :
       /\ sFiles[i] = SlotFile("ok", -1)
       /\ JobsOf(i, "once") = {}
       /\ Cardinality(JobsOf(i, "repeating")) = 1

\* C20: for every elapsed >= 0 the repeating job registered at startup first
\* fires d = interval - (elapsed mod interval) from now, so 0 < d <= interval
\* and elapsed + d is a positive multiple of interval.
C20_FirstFiring ==
  \A n \in 1..Len(sJobs) :
    LET e == sFiles[sJobs[n].file].elapsed
        d == sJobs[n].first
    IN (sJobs[n].kind = "repeating" /\ sFiles[sJobs[n].file].kind = "ok" /\ e >= 0) =>
         /\ d = Interval - (e % Interval)
         /\ 0 < d
         /\ d <= Interval
         /\ e + d > 0
         /\ (e + d) % Interval = 0

\* last_fetch 45 minutes ago: the repeating job first fires in 15 minutes
C20_Witness ==
  \E n \in 1..Len(sJobs) :
    /\ sJobs[n].kind = "repeating"
    /\ sFiles[sJobs[n].file] = SlotFile("ok", 45)
    /\ sJobs[n].first = 15

\* C21: across cycles and restarts every firing instant of the repeating job
\* is congruent, modulo the interval, to the cadence the monitor had before
\* the first restart (it was created at time 0).
C21_CadenceKept == \A p \in tPhases : p = 0

\* C22: after a retention sweep no monitor slot remains whose start_time is
\* older than the retention period, whatever its last_fetch is; the sweep
\* leaves a parseable slot with a start_time that is not older untouched, and
\* runs of monitor_job never change start_time.
C22_RetentionByStartTime ==
  /\ [](wpc = "done" =>
          \A k \in SweepFiles : ~(wSlot[k].st = "rec" /\ wSlot[k].start_time = "old"))
  /\ [][\A k \in SweepFiles :
          /\ (wpc = "monitors" /\ wSlot[k].st = "rec" /\ wSlot[k].start_time = "recent"
                /\ wRun' = wRun) => wSlot'[k] = wSlot[k]
          /\ (wSlot[k].st = "rec" /\ wSlot'[k].st = "rec") =>
               wSlot'[k].start_time = wSlot[k].start_time]_vars

\* C23: a sweep deletes the preference slot only if its last_activity (or
\* created_at when last_activity is absent) is older than the retention period
\* and the user owns no monitor slot.
C23_ConfigDeletedOnlyIfInactive ==
  [][(wConfig.st # "absent" /\ wConfig'.st = "absent") =>
       /\ wConfig.st = "rec"
       /\ LastActivityStr(wConfig) = "old"
       /\ ActiveMonitors(wSlot) = {}]_vars

PreferenceReads == {"ConfigManager.get_user_config", "get_user_config", "get_user_config_async"}

\* C24: the first preference read of a user without stored preference returns
\* the defaults with created_at and last_activity set and leaves a preference
\* slot on disk; a read of an existing slot returns its stored fields with
\* last_activity set to the current time and persists that with one write.
C24_LazyCreateAndRefresh ==
  uOut.fn \in PreferenceReads =>
    /\ uOut.before.st = "absent" =>
         /\ uOut.result = DefaultConfig(uOut.at)
         /\ uFile = uOut.result
    /\ uOut.before.st = "rec" =>
         /\ uOut.result = URec(uOut.before.fields, uOut.before.created_at, uOut.at)
         /\ uFile = uOut.result
         /\ uOut.writes = 1

\* the save and the read of one module
SamePair(save, read) ==
  \/ save = "ConfigManager.save_user_config" /\ read = "ConfigManager.get_user_config"
  \/ save = "save_user_config" /\ read \in {"get_user_config", "get_user_config_async"}

\* C25: save_user_config(u, c) followed by get_user_config(u) returns every
\* field of c unchanged, a created_at that is set (the one of c when it has
\* one) and a last_activity that is set, whatever was stored before the save.
C25_SaveThenGet ==
  SamePair(uPrev.fn, uOut.fn) =>
    /\ uOut.result.st = "rec"
    /\ uOut.result.fields = uPrev.arg.fields
    /\ uOut.result.created_at # 0
    /\ uPrev.arg.created_at # 0 => uOut.result.created_at = uPrev.arg.created_at
    /\ uOut.result.last_activity # 0

MinuteOfDay(t) == t.hour * 60 + t.minute

\* the hour lies in [start, end) of some selected band
HourInSomeBand(hour, periods) ==
  \E p \in periods : hour \in TIME_PERIODS[p][1]..(TIME_PERIODS[p][2] - 1)

\* the configs that differ from c only in the pair time_type does not select
SameActivePair(c) ==
  IF c.time_type = "time_period"
    THEN {[c EXCEPT !.outbound_exact_hour = oh, !.inbound_exact_hour = ih] :
            oh \in ExactHours, ih \in ExactHours}
    ELSE {[c EXCEPT !.outbound_periods = op, !.inbound_periods = ip] :
            op \in SUBSET (1..NumPeriods), ip \in SUBSET (1..NumPeriods)}

\* C26: check_time_restrictions is true iff, in time_period mode, the hour of
\* dep lies in a band [start, end) of outbound_periods and the hour of ret in
\* a band of inbound_periods, and in exact mode dep <= outbound_exact_hour:00
\* and ret >= inbound_exact_hour:00, both inclusive; the pair that time_type
\* does not select never changes the result.
C26_TimeRestrictions ==
  tcDone =>
    /\ tcConfig.time_type = "time_period" =>
         (tcResult <=> /\ HourInSomeBand(tcDep.hour, tcConfig.outbound_periods)
                       /\ HourInSomeBand(tcRet.hour, tcConfig.inbound_periods))
    /\ tcConfig.time_type = "exact" =>
         (tcResult <=> /\ MinuteOfDay(tcDep) <= tcConfig.outbound_exact_hour * 60
                       /\ MinuteOfDay(tcRet) >= tcConfig.inbound_exact_hour * 60)
    /\ \A d \in SameActivePair(tcConfig) :
         check_time_restrictions(tcDep, tcRet, d) = tcResult

\* accepted on both inclusive bounds of the exact mode, with period lists
\* that would reject both times
C26_Witness ==
  /\ tcDone
  /\ tcResult
  /\ tcConfig.time_type = "exact"
  /\ tcDep = HourLimit(tcConfig.outbound_exact_hour)
  /\ tcRet = HourLimit(tcConfig.inbound_exact_hour)
  /\ tcConfig.outbound_periods = {}
  /\ tcConfig.inbound_periods = {}

\* the smallest element of a set of prices, None for the empty set
MinPrice(S) == IF S = {} THEN None ELSE CHOOSE p \in S : \A q \in S : p <= q

\* the direct flights of the page that parse
ParsedDirect == {scItems[i] : i \in {j \in 1..Len(scItems) : scItems[j].kind = "flight"}}

\* those of them that satisfy the time constraints of config
Matching(config) == {it \in ParsedDirect : check_time_restrictions(it.dep, it.ret, config)}

\* C27: for a fetch requested with user id U the restricted price is the
\* minimum price over the parsed direct flights that satisfy the time
\* constraints stored in U's preference record, and the overall price is the
\* minimum over all parsed direct flights.
C27_RestrictedUsesUserConfig ==
  (scUserId /\ scHasRecord /\ scOut.got.outcome = "result") =>
    /\ scOut.got.restricted_price = MinPrice({it.price : it \in Matching(scUserConfig)})
    /\ scOut.got.overall_price = MinPrice({it.price : it \in ParsedDirect})

\* C28: an attempt fails with NoFlightData iff the scrape produced zero
\* parseable items, fails with NoMatchingFlights iff items were parsed but
\* none satisfies the time constraints, and returns a result only when at
\* least one parsed item satisfies them.
C28_AttemptOutcome ==
  scOut.got.outcome \in {"NoFlightData", "NoMatchingFlights", "result"} =>
    /\ scOut.got.outcome = "NoFlightData" <=> ParsedDirect = {}
    /\ scOut.got.outcome = "NoMatchingFlights" <=>
         (ParsedDirect # {} /\ Matching(scOut.config) = {})
    /\ scOut.got.outcome = "result" => Matching(scOut.config) # {}

\* positions of the log where a record is written, read, written again and read
WrittenTwice ==
  {i \in 1..(Len(stLog) - 3) :
     /\ stLog[i].op = "save"
     /\ stLog[i + 1].op = "load"
     /\ stLog[i + 2].op = "save"
     /\ stLog[i + 2].data = stLog[i].data
     /\ stLog[i + 3].op = "load"}

\* positions where the same record is written twice with nothing in between
SavedTwiceInARow ==
  {i \in 1..(Len(stLog) - 1) :
     /\ stLog[i].op = "save"
     /\ stLog[i + 1].op = "save"
     /\ stLog[i + 1].data = stLog[i].data}

\* C29: writing the same monitor record to a slot twice in a row leaves the
\* store as writing it once does: the read after the first write and the
\* read after the second write return identical records, equal to the
\* record written.
C29_WriteIdempotent ==
  /\ \A i \in WrittenTwice :
       /\ stLog[i + 1].result = LoadResult("ok", stLog[i].data)
       /\ stLog[i + 3].result = stLog[i + 1].result
       /\ stLog[i + 2].after = stLog[i].after
  /\ \A i \in SavedTwiceInARow : stLog[i + 1].after = stLog[i].after

\* a record with a price is written, read, written again and read
C29_Witness ==
  /\ Len(stLog) = 4
  /\ 1 \in WrittenTwice
  /\ stLog[1].data.restricted # 0
  /\ stLog[4].result.st = "ok"

\* C30: a cycle sends at most one price notification message; when the
\* restricted line and the overall line trigger in the same cycle, both are
\* in that one message.
C30_OneCombinedMessage ==
  nOut.decided =>
    /\ nOut.messages <= 1
    /\ (nOut.restricted_line /\ nOut.overall_line) => nOut.messages = 1
    /\ (nOut.restricted_line \/ nOut.overall_line) => nOut.messages = 1

\* both prices dropped in the same cycle and one message was sent
C30_Witness ==
  /\ nOut.decided
  /\ nOut.restricted_line
  /\ nOut.overall_line
  /\ nOut.messages = 1

\* thread t is inside the body of file_lock: flock has returned and the body
\* of save_json_data / load_json_data has not ended
InBody(t) == lpc[t] \in {"locked", "truncated"}

\* C31: at no time are two threads inside the body of file_lock for the same
\* slot path, although every exit unlinks the .lock file while other callers
\* may have it open or may open it afterwards.
C31_MutualExclusion ==
  \A t1 \in Threads, t2 \in Threads : (InBody(t1) /\ InBody(t2)) => t1 = t2

\* C32: whenever the body of file_lock exits, normally or by an exception,
\* the lock is released: no caller waits for the lock of the slot for ever
\* ("opened" is left only by acquiring the lock).
C32_LockEventuallyAcquired ==
  \A t \in Threads : []<>(lpc[t] # "opened")

\* a caller waits for the lock while the body of the holder has ended with
\* an exception of json.load or open
C32_Witness ==
  \E t \in Threads, u \in Threads :
    /\ lpc[t] = "opened"
    /\ inodeLock[fd[t]] = u
    /\ lpc[u] = "bodyDone"
    /\ loaded[u].st \in {"FileNotFoundError", "JSONDecodeError"}

\* the last run was a cycle that wrote the slot
CycleWrote == kLast.fn = "monitor_job" /\ kLast.wrote

\* C33: the record a cycle writes has, for each of restricted and overall,
\* the newly fetched price when the fetch returned one and otherwise the
\* previously stored price; after NoFlightData or a transient failure both
\* stored prices are unchanged; start_time is always copied unchanged.
C33_WrittenRecord ==
  /\ CycleWrote =>
       /\ kSlot.st = "rec"
       /\ kSlot.restricted =
            (IF kLast.fetch.restricted # None THEN kLast.fetch.restricted ELSE kLast.read.restricted)
       /\ kSlot.overall =
            (IF kLast.fetch.overall # None THEN kLast.fetch.overall ELSE kLast.read.overall)
       /\ kSlot.start_time = kLast.read.start_time
  /\ (kLast.fn = "monitor_job" /\ kLast.fetch.kind \in {"NoFlightDataException", "Exception"}) =>
       /\ kLast.wrote
       /\ kSlot.restricted = kLast.read.restricted
       /\ kSlot.overall = kLast.read.overall

\* a cycle whose fetch returned an overall price and no restricted price has
\* written a record that keeps the stored restricted price
C33_Witness ==
  /\ CycleWrote
  /\ kLast.fetch.kind = "result"
  /\ kLast.fetch.restricted = None
  /\ kLast.read.restricted # 0
  /\ kSlot.restricted = kLast.read.restricted
  /\ kSlot.overall = kLast.fetch.overall
  /\ kSlot.last_fetch > kLast.read.last_fetch

\* C34: when the last_fetch of a persisted slot is missing or cannot be
\* parsed, startup treats it as now - interval - 1 s: a catch-up job is
\* registered and the repeating job first fires interval - 1 s from now
\* (the delays of the model are minutes, 60 s each).
C34_UnusableLastFetch ==
  \A i \in 1..sIdx :
    sFiles[i].kind \in {"missing", "invalid"} =>
      /\ Cardinality(JobsOf(i, "once")) = 1
      /\ \A n \in JobsOf(i, "repeating") : sJobs[n].first * 60 = Interval * 60 - 1

\* the content of the slot does not parse
Unparseable(h) == h.st \in {"empty", "corrupt"}

\* C35: a monitor slot whose content cannot be parsed is deleted and
\* skipped wherever it is met: a cycle deletes it, unschedules its own job
\* and performs no fetch, notification or write; startup deletes it and
\* registers no job for it; the retention sweep deletes it whatever its age.
C35_UnparseableSlotDeleted ==
  [][/\ \A j \in JobIds :
          /\ (cpc[j] = "loading" /\ cpc'[j] # "loading" /\ Unparseable(hist)) =>
               cpc'[j] = "corrupt"
          /\ (cpc[j] = "corrupt" /\ cpc'[j] # "corrupt") =>
               /\ cpc'[j] = "idle"
               /\ hist' = SlotAbsent
               /\ ~job'[j]
               /\ sent' = sent
     /\ (~booted /\ booted' /\ Unparseable(hist)) => (hist' = SlotAbsent /\ job' = job)
     /\ (SweepSlot /\ Unparseable(hist)) => hist' = SlotAbsent]_vars

\* a run of monitor_job has met a slot that does not parse
C35_Witness == \E j \in JobIds : cpc[j] = "corrupt" /\ job[j]

\* job j is fired by the job queue in this step
Fires(j) == job[j] /\ cpc[j] = "idle" /\ (cpc'[j] # "idle" \/ ~job'[j])

\* C36: after a cancel of the monitor has completed, and until the monitor is
\* created again, the slot is absent and no job named after the slot is
\* scheduled; a job of the monitor that still fires finds no slot, starts no
\* run (so no fetch, no message, no write) and unschedules itself.
C36_CancelRemovesMonitor ==
  [][(cancelled /\ cancelled') =>
       /\ hist' = SlotAbsent
       /\ \A j \in JobIds : NamedAfterSlot(j) => ~job'[j]
       /\ \A j \in JobIds : Fires(j) => (cpc'[j] = "idle" /\ ~job'[j])
       /\ sent' = sent]_vars

\* the call of update_status_message that has returned ...
UpdateReturned == mCall.st = "returned"

\* ... was refused for want of a telegram_bot instance (telegram_bot.py only)
NoBotGiven == mCall.impl = "telegram_bot" /\ ~mCall.telegram_bot

\* the result of a call that attempted one edit
OneEditOutcome ==
  /\ mCall.edits = 1
  /\ mCall.ret # None => status_messages[mCall.user_id] = mCall.ret
  /\ mCall.ret = None => status_messages[mCall.user_id] = None

\* the result of a call that attempted no edit
NoEditOutcome ==
  /\ mCall.edits = 0
  /\ mCall.ret = None

\* C37: update_status_message(u, text) returns None without attempting an
\* edit when no status message is registered for u; otherwise it attempts
\* exactly one safe edit, after which the registered message of u is the
\* returned message when the edit succeeded and u has no registered message
\* when it failed (the call then returns None).
C37_UpdateStatusMessage ==
  UpdateReturned =>
    IF mCall.registered = None THEN NoEditOutcome ELSE OneEditOutcome

\* C37 as amended: the version of telegram_bot.py called without a
\* telegram_bot instance returns None without an edit and leaves the registry
\* as it is; every other call behaves as C37 says.
C37_UpdateStatusMessageAmended ==
  UpdateReturned =>
    IF NoBotGiven
      THEN NoEditOutcome /\ status_messages[mCall.user_id] = mCall.registered
      ELSE IF mCall.registered = None THEN NoEditOutcome ELSE OneEditOutcome

\* an edit of a registered message has failed
C37_Witness ==
  UpdateReturned /\ mCall.registered # None /\ mCall.edits = 1 /\ mCall.ret = None

\* C38: a cancel callback of a user who is no administrator deletes only
\* slots, and removes only jobs, of that user; a callback that names the
\* slot of another user leaves that slot and its job untouched.
C38_CancelOnlyOwnMonitors ==
  \A f \in chLast.unlinked \cup chLast.removed : f.uid = chLast.user_id

\* C39: in every persisted monitor record in which both prices are nonzero
\* the overall price is at most the restricted price, after creation and
\* after every cycle, also a cycle whose fetch returns an overall price but
\* no restricted price.
C39_OverallAtMostRestricted ==
  (kSlot.st = "rec" /\ kSlot.restricted # 0 /\ kSlot.overall # 0) =>
    kSlot.overall <= kSlot.restricted

\* the calls of user u that returned True at a time in [from, from + time_window]
AllowedInWindow(u, from) ==
  {i \in DOMAIN rAllowed[u] : from <= rAllowed[u][i] /\ rAllowed[u][i] <= from + time_window}

\* no window holds more than max_calls allowed calls of one user
WithinRate ==
  \A u \in RateUsers, from \in ClockTimes :
    Cardinality(AllowedInWindow(u, from)) <= max_calls

\* the times recorded for user u
RecordedTimes(c, u) == {c[u][i] : i \in DOMAIN c[u]}

\* C40: for each user at most max_calls calls of is_allowed return True
\* within any window of length time_window; a rejected call is not recorded,
\* and a call of one user leaves the records of every other user as they were.
C40_RateLimit ==
  /\ []WithinRate
  /\ [][IsAllowed =>
          /\ \A v \in RateUsers \ {rLast'.user_id} : calls'[v] = calls[v]
          /\ ~rLast'.ret =>
               /\ rAllowed' = rAllowed
               /\ RecordedTimes(calls', rLast'.user_id) \subseteq
                    RecordedTimes(calls, rLast'.user_id)]_vars

\* a call is rejected while another user has calls on record and an allowed
\* call of the caller is still inside the window
C40_Witness ==
  /\ rLast.user_id # 0
  /\ ~rLast.ret
  /\ \E v \in RateUsers \ {rLast.user_id} : calls[v] # << >>
  /\ rAllowed[rLast.user_id] # << >>
  /\ rNow > time_window

====
